---- MODULE Spec2Model ----
(***************************************************************************)
(* The Google Fit takeout extraction servers of the repository:            *)
(*   "index"   src/src/server/index.ts   (findFitFiles, parseMetricName,   *)
(*             extractValue, getTimestamp, getDeviceInfo, POST /upload)    *)
(*   "part000" src/unnamed/part_000      (normalizeMetricName,             *)
(*             findFitDataDirectory, processJsonFiles, POST /upload)       *)
(* A JavaScript string is a tuple of one-character strings, so that the    *)
(* regular expressions and string methods of the code are computed.        *)
(***************************************************************************)
EXTENDS Integers, Sequences, FiniteSets, TLC

VARIABLES
    impl,         \* which server handles the requests: "index", "part000" or "part002"
    request,      \* the upload: the multipart file and the tree its archive unpacks to
    pc,           \* where the handler is
    extractPath,  \* whether the handler's extractPath has been assigned
    extractDir,   \* whether the extraction directory exists on disk
    uploadFile,   \* whether the uploaded temporary file exists on disk
    fitFiles,     \* the candidate files located: what findFitFiles returned
                  \* (index.ts), the .json files processDirectory has reached (part_000)
    todo,         \* the files (index.ts) or directory entries (part_000) still to visit
    allData,      \* the record buffer (allData / results)
    devices,      \* the Set of devices
    metrics,      \* the Set of metrics
    thrown,       \* the error on its way to the handler's catch
    response,     \* the response sent
    parked,       \* the other invocation of the upload handler, waiting at an await
    processed,    \* part_000: processed/<fileId>/processed_data.csv, by fileId
    fileMetadata, \* part_000: the fileMetadata Map
    stamped,      \* history: the bytes of each artifact when it was written
    processedData,\* part_002: the processedData Map
    hashDirs,     \* part_002: the extraction directories on disk, by file hash
    reply         \* the response to the GET request just handled

\* the state of one invocation of the upload handler
locals == <<request, pc, extractPath, extractDir, uploadFile, fitFiles, todo,
            allData, devices, metrics, thrown, response>>

\* the state the invocations and the GET handlers share
shared == <<parked, processed, fileMetadata, stamped, processedData, hashDirs>>

vars == <<impl, request, pc, extractPath, extractDir, uploadFile, fitFiles, todo,
          allData, devices, metrics, thrown, response,
          parked, processed, fileMetadata, stamped, processedData, hashDirs, reply>>

(***************************************************************************)
(* Bounds of the model.                                                    *)
(***************************************************************************)
MaxPoints == 3
\* how far from its ends an artifact is altered
MaxAltered == 3

(***************************************************************************)
(* JavaScript strings.                                                     *)
(***************************************************************************)
UpperCase == <<"A","B","C","D","E","F","G","H","I","J","K","L","M",
               "N","O","P","Q","R","S","T","U","V","W","X","Y","Z">>
LowerCase == <<"a","b","c","d","e","f","g","h","i","j","k","l","m",
               "n","o","p","q","r","s","t","u","v","w","x","y","z">>
Digits == <<"0","1","2","3","4","5","6","7","8","9">>

Range(s) == {s[i] : i \in DOMAIN s}

IsUpper(c) == c \in Range(UpperCase)
IsDigit(c) == c \in Range(Digits)
\* \w of a regular expression
IsWordChar(c) == c \in Range(UpperCase) \cup Range(LowerCase) \cup Range(Digits) \cup {"_"}
\* \s of a regular expression, and what trim() removes
IsSpace(c) == c \in {" ", "\t"}

LowerChar(c) == IF IsUpper(c)
                THEN LowerCase[CHOOSE i \in DOMAIN UpperCase : UpperCase[i] = c]
                ELSE c

toLowerCase(s) == [i \in DOMAIN s |-> LowerChar(s[i])]

\* the string p occurs in s at position i (1-based)
OccursAt(s, p, i) ==
    /\ i >= 1
    /\ i + Len(p) - 1 <= Len(s)
    /\ \A k \in 1..Len(p) : s[i + k - 1] = p[k]

includes(s, p) == \E i \in 1..(Len(s) + 1) : OccursAt(s, p, i)
endsWith(s, p) == Len(p) <= Len(s) /\ OccursAt(s, p, Len(s) - Len(p) + 1)
startsWith(s, p) == OccursAt(s, p, 1)

\* s.replace(/c/g, d) for single characters c and d
replaceChar(s, c, d) == [i \in DOMAIN s |-> IF s[i] = c THEN d ELSE s[i]]

RECURSIVE trimStart(_)
trimStart(s) == IF s # <<>> /\ IsSpace(Head(s)) THEN trimStart(Tail(s)) ELSE s
RECURSIVE trimEnd(_)
trimEnd(s) == IF s # <<>> /\ IsSpace(s[Len(s)])
              THEN trimEnd(SubSeq(s, 1, Len(s) - 1)) ELSE s
trim(s) == trimEnd(trimStart(s))

\* s.split(/(?=[A-Z])/).join(' '): a space before every capital letter but
\* one at the start of the string (split yields no empty first piece there)
RECURSIVE splitCapitalsJoin(_, _)
splitCapitalsJoin(s, i) ==
    IF i > Len(s) THEN <<>>
    ELSE (IF i > 1 /\ IsUpper(s[i]) THEN <<" ", s[i]>> ELSE <<s[i]>>)
         \o splitCapitalsJoin(s, i + 1)

\* decimal digits of a natural number, and String(n) of an integer
RECURSIVE NatToString(_)
NatToString(n) == IF n < 10 THEN <<Digits[n + 1]>>
                  ELSE NatToString(n \div 10) \o <<Digits[(n % 10) + 1]>>
NumToString(n) == IF n < 0 THEN <<"-">> \o NatToString(-n) ELSE NatToString(n)

\* n written with exactly w digits (n < 10^w)
RECURSIVE Pad(_, _)
Pad(n, w) == IF w = 0 THEN <<>> ELSE Pad(n \div 10, w - 1) \o <<Digits[(n % 10) + 1]>>

DigitValue(c) == (CHOOSE i \in DOMAIN Digits : Digits[i] = c) - 1
AllDigits(s) == \A i \in DOMAIN s : IsDigit(s[i])
RECURSIVE ParseNat(_)
ParseNat(s) == IF s = <<>> THEN 0
               ELSE ParseNat(SubSeq(s, 1, Len(s) - 1)) * 10 + DigitValue(s[Len(s)])

(***************************************************************************)
(* Parsed JSON values, as JavaScript sees them: a tagged union.            *)
(*   t: "undefined" | "null" | "bool" | "num" | "str" | "obj" | "arr"      *)
(*   s: the characters of a string, n: the number (bool: 1 / 0),           *)
(*   o: the own properties of an object, a: the elements of an array       *)
(***************************************************************************)
JV(t, s, n, o, a) == [t |-> t, s |-> s, n |-> n, o |-> o, a |-> a]
Undefined == JV("undefined", <<>>, 0, <<>>, <<>>)
Null == JV("null", <<>>, 0, <<>>, <<>>)
Str(s) == JV("str", s, 0, <<>>, <<>>)
Num(n) == JV("num", <<>>, n, <<>>, <<>>)
Bool(b) == JV("bool", <<>>, IF b THEN 1 ELSE 0, <<>>, <<>>)
Obj(o) == JV("obj", <<>>, 0, o, <<>>)
Arr(a) == JV("arr", <<>>, 0, <<>>, a)

\* ToBoolean(v)
Truthy(v) == CASE v.t \in {"undefined", "null"} -> FALSE
               [] v.t = "bool" -> v.n = 1
               [] v.t = "num" -> v.n # 0
               [] v.t = "str" -> v.s # <<>>
               [] OTHER -> TRUE

IsNullish(v) == v.t \in {"undefined", "null"}

\* v[k] for a property name k; reading a property of null or undefined
\* raises a TypeError, which the callers test with IsNullish first
Get(v, k) == IF v.t = "obj" /\ k \in DOMAIN v.o THEN v.o[k] ELSE Undefined

\* a[0]
First(v) == IF v.t = "arr" /\ v.a # <<>> THEN v.a[1] ELSE Undefined

\* a ?? b
Coalesce(a, b) == IF IsNullish(a) THEN b ELSE a
\* a || b
OrElse(a, b) == IF Truthy(a) THEN a ELSE b

\* String(v); an array joins String of its elements with ",", null and
\* undefined elements giving the empty string
RECURSIVE ToStr(_)
RECURSIVE JoinElems(_)
JoinElems(a) ==
    IF a = <<>> THEN <<>>
    ELSE (IF IsNullish(a[1]) THEN <<>> ELSE ToStr(a[1]))
         \o (IF Len(a) > 1 THEN <<",">> \o JoinElems(Tail(a)) ELSE <<>>)
ToStr(v) == CASE v.t = "undefined" -> <<"u","n","d","e","f","i","n","e","d">>
              [] v.t = "null" -> <<"n","u","l","l">>
              [] v.t = "bool" -> (IF v.n = 1 THEN <<"t","r","u","e">> ELSE <<"f","a","l","s","e">>)
              [] v.t = "num" -> NumToString(v.n)
              [] v.t = "str" -> v.s
              [] v.t = "arr" -> JoinElems(v.a)
              [] OTHER -> <<"[","o","b","j","e","c","t"," ","O","b","j","e","c","t","]">>

(***************************************************************************)
(* Dates.  A time value is [nan, ms]: NaN, or milliseconds since the       *)
(* epoch.  The ISO formats of January 1970 are parsed as Date parses them  *)
(* (the inputs of the model carry no other date), every other string is    *)
(* an Invalid Date.                                                        *)
(***************************************************************************)
NaN == [nan |-> TRUE, ms |-> 0]
Time(ms) == [nan |-> FALSE, ms |-> ms]

\* "HH:MM" at position i, in minutes; -1 when malformed
ClockMinutes(s, i) ==
    IF /\ i + 4 <= Len(s)
       /\ AllDigits(SubSeq(s, i, i + 1))
       /\ s[i + 2] = ":"
       /\ AllDigits(SubSeq(s, i + 3, i + 4))
       /\ ParseNat(SubSeq(s, i, i + 1)) < 24
       /\ ParseNat(SubSeq(s, i + 3, i + 4)) < 60
    THEN ParseNat(SubSeq(s, i, i + 1)) * 60 + ParseNat(SubSeq(s, i + 3, i + 4))
    ELSE -1

\* the zone designator that starts at position i and ends the string, as
\* minutes east of UTC; 9999 when malformed
ZoneMinutes(s, i) ==
    IF i = Len(s) /\ s[i] = "Z" THEN 0
    ELSE IF i + 5 = Len(s) /\ s[i] \in {"+", "-"} /\ ClockMinutes(s, i + 1) >= 0
         THEN (IF s[i] = "+" THEN 1 ELSE -1) * ClockMinutes(s, i + 1)
         ELSE 9999

\* "1970-01-DD" at the start of s, as the day of the month; 0 when it is not
DayOfJanuary1970(s) ==
    IF /\ Len(s) >= 10
       /\ SubSeq(s, 1, 8) = <<"1","9","7","0","-","0","1","-">>
       /\ AllDigits(SubSeq(s, 9, 10))
       /\ ParseNat(SubSeq(s, 9, 10)) \in 1..24
    THEN ParseNat(SubSeq(s, 9, 10))
    ELSE 0

\* Date.parse(s)
DateParse(s) ==
    LET day == DayOfJanuary1970(s)
        hasMs == Len(s) >= 23 /\ s[20] = "." /\ AllDigits(SubSeq(s, 21, 23))
        zoneAt == IF hasMs THEN 24 ELSE 20
        clock == ClockMinutes(s, 12)
        secOk == /\ Len(s) >= 19
                 /\ s[17] = ":"
                 /\ AllDigits(SubSeq(s, 18, 19))
                 /\ ParseNat(SubSeq(s, 18, 19)) < 60
    IN  IF day = 0 THEN NaN
        ELSE IF Len(s) = 10 THEN Time((day - 1) * 86400000)
        ELSE IF /\ Len(s) >= 20
                /\ s[11] = "T"
                /\ clock >= 0
                /\ secOk
                /\ ZoneMinutes(s, zoneAt) # 9999
             THEN Time((day - 1) * 86400000
                       + (clock - ZoneMinutes(s, zoneAt)) * 60000
                       + ParseNat(SubSeq(s, 18, 19)) * 1000
                       + (IF hasMs THEN ParseNat(SubSeq(s, 21, 23)) ELSE 0))
             ELSE NaN

\* new Date(v).getTime() for a JavaScript value v: a string is parsed, any
\* other primitive is converted to a number, an object or array to its
\* string first
RECURSIVE DateOf(_)
DateOf(v) == CASE v.t = "str" -> DateParse(v.s)
               [] v.t = "num" -> Time(v.n)
               [] v.t = "bool" -> Time(v.n)
               [] v.t = "null" -> Time(0)
               [] v.t = "undefined" -> NaN
               [] OTHER -> DateParse(ToStr(v))

\* Date.prototype.toISOString of a valid time in January 1970
toISOString(ms) ==
    <<"1","9","7","0","-","0","1","-">> \o Pad((ms \div 86400000) + 1, 2) \o <<"T">>
    \o Pad((ms \div 3600000) % 24, 2) \o <<":">> \o Pad((ms \div 60000) % 60, 2)
    \o <<":">> \o Pad((ms \div 1000) % 60, 2) \o <<".">> \o Pad(ms % 1000, 3) \o <<"Z">>

(***************************************************************************)
(* index.ts: the point decoders.                                           *)
(***************************************************************************)
UnknownDevice == Str(<<"U","n","k","n","o","w","n"," ","D","e","v","i","c","e">>)

\* the result of a call that may raise
Returned(v) == [threw |-> FALSE, v |-> v]
Threw == [threw |-> TRUE, v |-> Undefined]

valueFields == <<"activity", "steps", "distance", "calories", "heart_rate", "bpm",
                 "speed", "power", "weight", "height", "sleepSegmentType">>

\* the first field of the list (from i on) that the point has, else undefined
RECURSIVE FirstDefined(_, _, _)
FirstDefined(point, fields, i) ==
    IF i > Len(fields) THEN Undefined
    ELSE IF Get(point, fields[i]).t # "undefined" THEN Get(point, fields[i])
    ELSE FirstDefined(point, fields, i + 1)

\* TypedValue with || in the place of ??
TypedValueTruthy(firstValue) ==
    OrElse(Get(firstValue, "intVal"),
           OrElse(Get(firstValue, "fpVal"),
                  OrElse(Get(firstValue, "stringVal"), Null)))

\* firstValue.intVal ?? firstValue.fpVal ?? firstValue.stringVal ?? null
TypedValue(firstValue) ==
    Coalesce(Get(firstValue, "intVal"),
             Coalesce(Get(firstValue, "fpVal"),
                      Coalesce(Get(firstValue, "stringVal"), Null)))

extractValue(point) ==
    IF ~Truthy(point) THEN Null
    ELSE IF Get(point, "value").t # "undefined"
    THEN IF Get(point, "value").t = "arr" /\ Truthy(First(Get(point, "value")))
         THEN IF First(Get(point, "value")).t \in {"obj", "arr"}
              THEN TypedValue(First(Get(point, "value")))
              ELSE First(Get(point, "value"))
         ELSE Get(point, "value")
    ELSE IF FirstDefined(point, valueFields, 1).t # "undefined"
    THEN FirstDefined(point, valueFields, 1)
    ELSE IF Truthy(Get(point, "fitValue"))
    THEN Coalesce(Get(Get(point, "fitValue"), "value"), Get(point, "fitValue"))
    ELSE Null

timeFields == <<"startTime", "endTime", "timestamp", "modifiedTime", "createTime",
                "lastModifiedTime", "originDataSourceId", "date">>

\* the loop of getTimestamp from field i on: the ISO string of the first
\* field that is a non-empty string and parses, else null
RECURSIVE FirstTimestamp(_, _)
FirstTimestamp(point, i) ==
    IF i > Len(timeFields) THEN Null
    ELSE IF /\ Truthy(Get(point, timeFields[i]))
            /\ Get(point, timeFields[i]).t = "str"
            /\ ~DateParse(Get(point, timeFields[i]).s).nan
         THEN Str(toISOString(DateParse(Get(point, timeFields[i]).s).ms))
         ELSE FirstTimestamp(point, i + 1)

\* point[field] of a null or undefined point raises a TypeError
getTimestamp(point) ==
    IF IsNullish(point) THEN Threw ELSE Returned(FirstTimestamp(point, 1))

\* originDataSourceId.match(/raw:com\.google\.(\w+):/): the capture of the
\* leftmost match, the longest run of word characters that a ":" follows;
\* <<>> when there is no match (a capture is never empty)
RawSourceMatchAt(s, i) ==
    LET from == i + Len(<<"r","a","w",":","c","o","m",".","g","o","o","g","l","e",".">>)
        ends == {j \in from..Len(s) - 1 :
                   /\ \A k \in from..j : IsWordChar(s[k])
                   /\ s[j + 1] = ":"}
    IN  IF OccursAt(s, <<"r","a","w",":","c","o","m",".","g","o","o","g","l","e",".">>, i) /\ ends # {}
        THEN SubSeq(s, from, CHOOSE j \in ends : \A k \in ends : k <= j)
        ELSE <<>>
RawSourceMatch(s) ==
    LET starts == {i \in 1..Len(s) : RawSourceMatchAt(s, i) # <<>>}
    IN  IF starts = {} THEN <<>>
        ELSE RawSourceMatchAt(s, CHOOSE i \in starts : \A k \in starts : i <= k)

\* DeviceOfObject with the model sub-field left out of the chain
DeviceOfObjectNoModel(device) ==
    OrElse(Get(device, "name"),
           OrElse(Get(device, "manufacturer"),
                  OrElse(Get(device, "type"), UnknownDevice)))

\* point.device.name || .manufacturer || .model || .type || 'Unknown Device'
DeviceOfObject(device) ==
    OrElse(Get(device, "name"),
           OrElse(Get(device, "manufacturer"),
                  OrElse(Get(device, "model"),
                         OrElse(Get(device, "type"), UnknownDevice))))

\* .match of a value that is not a string raises a TypeError
getDeviceInfo(point) ==
    IF ~Truthy(point) THEN Returned(UnknownDevice)
    ELSE IF Truthy(Get(point, "device"))
    THEN IF Get(point, "device").t = "str"
         THEN Returned(Get(point, "device"))
         ELSE Returned(DeviceOfObject(Get(point, "device")))
    ELSE IF Truthy(Get(point, "originDataSourceId"))
    THEN IF Get(point, "originDataSourceId").t # "str" THEN Threw
         ELSE IF RawSourceMatch(Get(point, "originDataSourceId").s) # <<>>
         THEN Returned(Str(toLowerCase(replaceChar(
                  RawSourceMatch(Get(point, "originDataSourceId").s), "_", " "))))
         ELSE Returned(Get(point, "originDataSourceId"))
    ELSE Returned(UnknownDevice)

(***************************************************************************)
(* part_000: the point decoding written inline in processDirectory.        *)
(***************************************************************************)
\* lines 134-147; no step of it raises for a truthy point
deviceInfoOf(point) ==
    IF Truthy(Get(point, "device"))
    THEN IF Get(point, "device").t = "str" THEN Get(point, "device")
         ELSE IF Get(point, "device").t \in {"obj", "arr"}
              THEN DeviceOfObject(Get(point, "device"))
              ELSE UnknownDevice
    ELSE IF Truthy(Get(point, "originDataSourceId"))
         THEN Get(point, "originDataSourceId")
         ELSE UnknownDevice

\* lines 151-176: value stays null unless a branch assigns it; the typed
\* fields of value[0] are chained without a final null, so the result may
\* be undefined
valueOf(point) ==
    IF Get(point, "value").t # "undefined"
    THEN IF Get(point, "value").t = "arr"
         THEN IF Truthy(First(Get(point, "value")))
              THEN Coalesce(Get(First(Get(point, "value")), "intVal"),
                            Coalesce(Get(First(Get(point, "value")), "fpVal"),
                                     Get(First(Get(point, "value")), "stringVal")))
              ELSE Null
         ELSE Get(point, "value")
    ELSE IF Truthy(Get(point, "activity")) THEN Get(point, "activity")
    ELSE IF Truthy(Get(point, "sleepSegmentType")) THEN Get(point, "sleepSegmentType")
    ELSE IF Truthy(Get(point, "dataTypeName")) THEN Get(point, "dataTypeName")
    ELSE IF Get(point, "steps").t # "undefined" THEN Get(point, "steps")
    ELSE IF Get(point, "distance").t # "undefined" THEN Get(point, "distance")
    ELSE IF Get(point, "calories").t # "undefined" THEN Get(point, "calories")
    ELSE Null

\* line 179: the raw field value, not parsed
timestampOf(point) ==
    OrElse(Get(point, "startTime"),
           OrElse(Get(point, "endTime"),
                  OrElse(Get(point, "timestamp"),
                         OrElse(Get(point, "modifiedTime"), Get(point, "date")))))

(***************************************************************************)
(* Metric names from file names.                                           *)
(***************************************************************************)
\* the capture of the leftmost match of /<prefix>(.+?)<term>/, term a single
\* character: the shortest non-empty text between the prefix and a later
\* term; <<>> when the pattern does not match
LazyCaptureAt(s, prefix, term, i) ==
    LET from == i + Len(prefix)
        ends == {j \in (from + 1)..Len(s) : s[j] = term}
    IN  IF OccursAt(s, prefix, i) /\ ends # {}
        THEN SubSeq(s, from, (CHOOSE j \in ends : \A k \in ends : j <= k) - 1)
        ELSE <<>>
LazyCapture(s, prefix, term) ==
    LET starts == {i \in 1..Len(s) : LazyCaptureAt(s, prefix, term, i) # <<>>}
    IN  IF starts = {} THEN <<>>
        ELSE LazyCaptureAt(s, prefix, term, CHOOSE i \in starts : \A k \in starts : i <= k)

\* the capture of /(.+?)\.json$/
BeforeJsonCapture(s) ==
    IF endsWith(s, <<".","j","s","o","n">>) /\ Len(s) > 5 THEN SubSeq(s, 1, Len(s) - 5) ELSE <<>>

\* a pattern is [prefix, term], or the catch-all when its prefix is empty
CaptureOf(s, pattern) ==
    IF pattern.prefix = <<>> THEN BeforeJsonCapture(s)
    ELSE LazyCapture(s, pattern.prefix, pattern.term)

\* the capture of the first pattern of the list (from i on) that matches
RECURSIVE FirstCapture(_, _, _)
FirstCapture(s, patterns, i) ==
    IF i > Len(patterns) THEN <<>>
    ELSE IF CaptureOf(s, patterns[i]) # <<>> THEN CaptureOf(s, patterns[i])
    ELSE FirstCapture(s, patterns, i + 1)

\* match[1].replace(/_/g,' ').replace(/\./g,' ').split(/(?=[A-Z])/).join(' ')
\*         .toLowerCase().trim()
PostProcess(capture) ==
    trim(toLowerCase(splitCapitalsJoin(
        replaceChar(replaceChar(capture, "_", " "), ".", " "), 1)))

\* the first position from which s reads \s*, i.e. the start of the run of
\* white space that ends right before position p
RECURSIVE SpaceRunStart(_, _)
SpaceRunStart(s, p) ==
    IF p > 1 /\ IsSpace(s[p - 1]) THEN SpaceRunStart(s, p - 1) ELSE p

\* the end of the match of \(\d+\) that starts at position p; 0 when none
NumberingEnd(s, p) ==
    LET closes == {j \in (p + 2)..Len(s) :
                     /\ s[j] = ")"
                     /\ \A k \in (p + 1)..(j - 1) : IsDigit(s[k])}
    IN  IF p >= 1 /\ p <= Len(s) /\ s[p] = "(" /\ closes # {}
        THEN CHOOSE j \in closes : TRUE
        ELSE 0

\* index.ts line 77: filename.replace(/\s*\(\d+\)\.json$/, '')
StripNumberedJson(s) ==
    LET opens == {p \in 1..Len(s) :
                    /\ NumberingEnd(s, p) = Len(s) - 5
                    /\ endsWith(s, <<".","j","s","o","n">>)}
    IN  IF opens = {} THEN s
        ELSE SubSeq(s, 1, SpaceRunStart(s, CHOOSE p \in opens : TRUE) - 1)

\* part_000 line 44: filename.replace(/\s*\(\d+\)/, ''), the leftmost match
StripNumbering(s) ==
    LET opens == {p \in 1..Len(s) : NumberingEnd(s, p) # 0}
        p == CHOOSE q \in opens : \A r \in opens : q <= r
    IN  IF opens = {} THEN s
        ELSE SubSeq(s, 1, SpaceRunStart(s, p) - 1)
             \o SubSeq(s, NumberingEnd(s, p) + 1, Len(s))

Pattern(prefix, term) == [prefix |-> prefix, term |-> term]
CatchAll == Pattern(<<>>, ".")

parsePatterns == << Pattern(<<"d","e","r","i","v","e","d","_","c","o","m",".","g","o","o","g","l","e",".">>, "_"),
                    Pattern(<<"c","o","m",".","g","o","o","g","l","e",".">>, "."),
                    Pattern(<<"f","i","t","n","e","s","s",".">>, "."),
                    Pattern(<<"d","e","r","i","v","e","d","_">>, "_"),
                    CatchAll >>

\* parseMetricName without the return of line 101
parseMetricNameNoFallback(filename) ==
    IF FirstCapture(StripNumberedJson(filename), parsePatterns, 1) # <<>>
    THEN Str(PostProcess(FirstCapture(StripNumberedJson(filename), parsePatterns, 1)))
    ELSE Undefined

\* index.ts
parseMetricName(filename) ==
    IF FirstCapture(StripNumberedJson(filename), parsePatterns, 1) # <<>>
    THEN Str(PostProcess(FirstCapture(StripNumberedJson(filename), parsePatterns, 1)))
    ELSE Str(StripNumberedJson(filename))

normalizePatterns == << Pattern(<<"d","e","r","i","v","e","d","_","c","o","m",".","g","o","o","g","l","e",".">>, "_"),
                        Pattern(<<"c","o","m",".","g","o","o","g","l","e",".">>, "."),
                        Pattern(<<"f","i","t","n","e","s","s",".">>, "."),
                        CatchAll >>

\* part_000
normalizeMetricName(filename) ==
    IF FirstCapture(StripNumbering(filename), normalizePatterns, 1) # <<>>
    THEN Str(PostProcess(FirstCapture(StripNumbering(filename), normalizePatterns, 1)))
    ELSE Str(StripNumbering(filename))

(***************************************************************************)
(* Array.prototype.sort with the comparator                                *)
(*   (a, b) => new Date(a.timestamp).getTime() - new Date(b.timestamp).getTime() *)
(* as the engine runs it on an array of fewer than 64 elements: the        *)
(* leading run is found (and reversed when strictly descending), then the  *)
(* other elements are inserted by binary search.  A comparator result of   *)
(* NaN counts as 0.                                                        *)
(***************************************************************************)
Compare(a, b) ==
    IF DateOf(a.timestamp).nan \/ DateOf(b.timestamp).nan THEN 0
    ELSE DateOf(a.timestamp).ms - DateOf(b.timestamp).ms

\* the length of the run that starts the array, elements from idx on still
\* to be looked at
RECURSIVE RunLength(_, _, _)
RunLength(arr, idx, descending) ==
    IF idx > Len(arr) THEN Len(arr)
    ELSE IF descending /\ Compare(arr[idx], arr[idx - 1]) >= 0 THEN idx - 1
    ELSE IF ~descending /\ Compare(arr[idx], arr[idx - 1]) < 0 THEN idx - 1
    ELSE RunLength(arr, idx + 1, descending)

Reverse(arr) == [i \in DOMAIN arr |-> arr[Len(arr) + 1 - i]]

\* InsertionPoint with the pivot put before the elements it is equal to
RECURSIVE InsertionPointBeforeEqual(_, _, _, _)
InsertionPointBeforeEqual(arr, pivot, left, right) ==
    IF left >= right THEN left
    ELSE LET mid == left + ((right - left) \div 2)
         IN  IF Compare(pivot, arr[mid + 1]) <= 0
             THEN InsertionPointBeforeEqual(arr, pivot, left, mid)
             ELSE InsertionPointBeforeEqual(arr, pivot, mid + 1, right)

\* the number of elements of arr[1..right] that stay before the pivot
RECURSIVE InsertionPoint(_, _, _, _)
InsertionPoint(arr, pivot, left, right) ==
    IF left >= right THEN left
    ELSE LET mid == left + ((right - left) \div 2)
         IN  IF Compare(pivot, arr[mid + 1]) < 0
             THEN InsertionPoint(arr, pivot, left, mid)
             ELSE InsertionPoint(arr, pivot, mid + 1, right)

\* arr[1..start-1] is in order; insert arr[start], arr[start+1], ...
RECURSIVE BinaryInsertionSort(_, _)
BinaryInsertionSort(arr, start) ==
    IF start > Len(arr) THEN arr
    ELSE LET left == InsertionPoint(arr, arr[start], 0, start - 1)
         IN  BinaryInsertionSort(
                 SubSeq(arr, 1, left) \o <<arr[start]>>
                 \o SubSeq(arr, left + 1, start - 1)
                 \o SubSeq(arr, start + 1, Len(arr)),
                 start + 1)

\* sortByTimestamp that leaves the buffer as it is
sortByTimestampNot(arr) == arr

sortByTimestamp(arr) ==
    IF Len(arr) < 2 THEN arr
    ELSE LET descending == Compare(arr[2], arr[1]) < 0
             run == RunLength(arr, 3, descending)
         IN  BinaryInsertionSort(
                 IF descending
                 THEN Reverse(SubSeq(arr, 1, run)) \o SubSeq(arr, run + 1, Len(arr))
                 ELSE arr,
                 run + 1)

(***************************************************************************)
(* The accumulators of one upload: the record buffer and the Sets of       *)
(* devices and metrics (a Set keeps insertion order; an object is a member *)
(* by identity, and every parsed object is a new one).                     *)
(***************************************************************************)
\* SetAdd that adds to an empty Set only
SetAddFirstOnly(set, v) == IF set = <<>> THEN <<v>> ELSE set

SetAdd(set, v) ==
    IF v.t \in {"obj", "arr"} \/ v \notin Range(set) THEN Append(set, v) ELSE set

Record(timestamp, metric, value, device) ==
    [timestamp |-> timestamp, metric |-> metric, value |-> ToStr(value), device |-> device]

Acc(data, devs, mets) == [allData |-> data, devices |-> devs, metrics |-> mets]

\* Array.isArray(data) ? data : [data]
PointsOf(data) == IF data.t = "arr" THEN data.a ELSE <<data>>

\* index.ts lines 255-270, points i.. of one file; a raise leaves the loop
\* for the catch of line 271, which goes on with the next file
RECURSIVE pointLoop(_, _, _, _)
pointLoop(points, i, metric, acc) ==
    IF i > Len(points) THEN acc
    ELSE IF getDeviceInfo(points[i]).threw THEN acc
    ELSE LET device == getDeviceInfo(points[i]).v
             seen == Acc(acc.allData, SetAdd(acc.devices, device), acc.metrics)
         IN  IF getTimestamp(points[i]).threw THEN seen
             ELSE IF /\ extractValue(points[i]).t # "null"
                     /\ Truthy(getTimestamp(points[i]).v)
                  THEN pointLoop(points, i + 1, metric,
                           Acc(Append(seen.allData,
                                      Record(getTimestamp(points[i]).v, metric,
                                             extractValue(points[i]), device)),
                               seen.devices, seen.metrics))
                  ELSE pointLoop(points, i + 1, metric, seen)

\* index.ts lines 240-273, one file of fitFiles
processFile(file, acc) ==
    IF ~file.readOk THEN acc
    ELSE LET metric == parseMetricName(file.name)
             named == Acc(acc.allData, acc.devices, SetAdd(acc.metrics, metric))
         IN  IF ~file.parses THEN named
             ELSE pointLoop(PointsOf(file.data), 1, metric, named)

\* part_000 lines 130-189, points i.. of one file
RECURSIVE dataPointLoop(_, _, _, _)
dataPointLoop(points, i, metricName, acc) ==
    IF i > Len(points) THEN acc
    ELSE IF ~Truthy(points[i]) THEN dataPointLoop(points, i + 1, metricName, acc)
    ELSE LET seen == Acc(acc.allData, SetAdd(acc.devices, deviceInfoOf(points[i])),
                         acc.metrics)
         IN  IF valueOf(points[i]).t # "null" /\ Truthy(timestampOf(points[i]))
             THEN dataPointLoop(points, i + 1, metricName,
                      Acc(Append(seen.allData,
                                 Record(timestampOf(points[i]), metricName,
                                        valueOf(points[i]), deviceInfoOf(points[i]))),
                          seen.devices, seen.metrics))
             ELSE dataPointLoop(points, i + 1, metricName, seen)

\* part_000 lines 114-192, one .json file
processJsonFile(file, acc) ==
    IF ~file.readOk \/ ~file.parses THEN acc
    ELSE dataPointLoop(PointsOf(file.data), 1, normalizeMetricName(file.name),
             Acc(acc.allData, acc.devices,
                 SetAdd(acc.metrics, normalizeMetricName(file.name))))

(***************************************************************************)
(* The unpacked archive: a tree of directory entries.                      *)
(*   statOk: stat of the entry succeeds; readOk: readdir of the directory, *)
(*   or reading the file, succeeds; parses: JSON.parse of the file body    *)
(*   succeeds, and then yields data.                                       *)
(***************************************************************************)
Dir(name, entries) ==
    [kind |-> "dir", name |-> name, statOk |-> TRUE, readOk |-> TRUE,
     entries |-> entries, parses |-> FALSE, data |-> Undefined]
File(name, data) ==
    [kind |-> "file", name |-> name, statOk |-> TRUE, readOk |-> TRUE,
     entries |-> <<>>, parses |-> TRUE, data |-> data]
Malformed(name) == [File(name, Undefined) EXCEPT !.parses = FALSE]
Unreadable(node) == [node EXCEPT !.readOk = FALSE]
NoStat(node) == [node EXCEPT !.statOk = FALSE]

\* /fitness/i.test(name)
IsFitnessName(name) == includes(toLowerCase(name), <<"f","i","t","n","e","s","s">>)

\* index.ts line 51
IsMarkerDirectory(name) ==
    name = <<"T","a","k","e","o","u","t">> \/ name = <<"F","i","t">> \/ name = <<"A","l","l"," ","D","a","t","a">> \/ IsFitnessName(name)

\* index.ts lines 57-60
IsFitPath(fullPath) ==
    \/ includes(fullPath, <<"T","a","k","e","o","u","t","/","F","i","t">>)
    \/ includes(fullPath, <<"T","a","k","e","o","u","t","/","F","i","t","/","A","l","l"," ","D","a","t","a">>)
    \/ includes(fullPath, <<"/","f","i","t","n","e","s","s","/">>)

\* path.join(dir, name)
Join(dir, name) == dir \o <<"/">> \o name

\* index.ts traverse, lines 41-69: a failing readdirSync or statSync ends
\* the loop of the directory it happens in (the catch of line 66)
RECURSIVE traverse(_, _, _)
traverse(entries, i, currentDir) ==
    IF i > Len(entries) THEN <<>>
    ELSE IF ~entries[i].statOk THEN <<>>
    ELSE IF entries[i].kind = "dir"
    THEN (IF IsMarkerDirectory(entries[i].name) /\ entries[i].readOk
          THEN traverse(entries[i].entries, 1, Join(currentDir, entries[i].name))
          ELSE <<>>)
         \o traverse(entries, i + 1, currentDir)
    ELSE IF /\ endsWith(entries[i].name, <<".","j","s","o","n">>)
            /\ IsFitPath(Join(currentDir, entries[i].name))
    THEN <<entries[i]>> \o traverse(entries, i + 1, currentDir)
    ELSE traverse(entries, i + 1, currentDir)

\* multer's generated file name, and the directories the servers extract to
UploadName == <<"f","3","a","9","c","0","d","e">>
findFitFiles(root) ==
    IF root.readOk THEN traverse(root.entries, 1, Join(<<"e","x","t","r","a","c","t","e","d">>, UploadName))
    ELSE <<>>

\* part_000 searchDir, lines 71-87: [threw, dirs]; a failing readdirSync or
\* statSync is not caught here
RECURSIVE searchDir(_, _)
searchDir(entries, i) ==
    IF i > Len(entries) THEN [threw |-> FALSE, dirs |-> <<>>]
    ELSE IF ~entries[i].statOk THEN [threw |-> TRUE, dirs |-> <<>>]
    ELSE LET here ==
                 IF entries[i].kind # "dir" THEN [threw |-> FALSE, dirs |-> <<>>]
                 ELSE IF entries[i].name = <<"F","i","t">> \/ IsFitnessName(entries[i].name)
                 THEN [threw |-> FALSE, dirs |-> <<entries[i]>>]
                 ELSE IF ~entries[i].readOk THEN [threw |-> TRUE, dirs |-> <<>>]
                 ELSE searchDir(entries[i].entries, 1)
             rest == searchDir(entries, i + 1)
         IN  IF here.threw \/ rest.threw THEN [threw |-> TRUE, dirs |-> <<>>]
             ELSE [threw |-> FALSE, dirs |-> here.dirs \o rest.dirs]

findFitDataDirectory(root) ==
    IF ~root.readOk THEN [threw |-> TRUE, dirs |-> <<>>]
    ELSE searchDir(root.entries, 1)

(***************************************************************************)
(* Responses.  keys are the properties of the JSON body sent.  An error    *)
(* is named by its kind:                                                   *)
(*   "NoFile"           'No file uploaded'                                 *)
(*   "NotZip"           'Please upload a ZIP file ...'                     *)
(*   "CorruptArchive"   what AdmZip raises on an archive it cannot unpack  *)
(*   "NoFitDataFound"   'No Google Fit data found in the ZIP file. ...' /  *)
(*                      'Google Fit data not found in the uploaded ...'    *)
(*   "NoValidDataFound" 'No valid data found in the files. ...'            *)
(*   "IOError"          what fs raises on an entry it cannot stat or read  *)
(***************************************************************************)
NoResponse ==
    [status |-> 0, keys |-> {}, error |-> "", data |-> <<>>,
     devices |-> <<>>, metrics |-> <<>>]
ErrorResponse(status, kind) ==
    [status |-> status, keys |-> {"error"}, error |-> kind, data |-> <<>>,
     devices |-> <<>>, metrics |-> <<>>]
\* res.json({ success: true, data, devices, metrics })
SuccessResponse(data, devs, mets) ==
    [status |-> 200, keys |-> {"success", "data", "devices", "metrics"}, error |-> "",
     data |-> data, devices |-> devs, metrics |-> mets]
\* res.json({ message, fileId, ...processedData })
ProcessedResponse(data, devs, mets) ==
    [status |-> 200, keys |-> {"message", "fileId", "data", "devices", "metrics"},
     error |-> "", data |-> data, devices |-> devs, metrics |-> mets]

(***************************************************************************)
(* What the invocations share: the files under processed/, the Maps of the *)
(* module.  A Map or a directory is a function from its keys.              *)
(***************************************************************************)
NoEntries == << >>
NoInvocation == << >>

\* a step that touches nothing shared; reply holds the response to a GET
\* request in the state that follows the request, and no longer
Apart == UNCHANGED shared /\ reply' = NoResponse

\* Map.prototype.set, and writing the file of a key
Put(map, key, value) ==
    [k \in DOMAIN map \cup {key} |-> IF k = key THEN value ELSE map[k]]

\* a hash that takes in the name the file was uploaded under as well
calculateFileHashOfNamed(bytes) == [sha256 |-> <<bytes, request.root.name>>]

\* crypto.createHash('sha256').update(bytes).digest('hex'): injective in
\* the bytes, as far as anyone has found
calculateFileHash(bytes) == [sha256 |-> bytes]

Comma == ","
Quote == "\""
Newline == "\n"

RECURSIVE doubleQuotes(_)
doubleQuotes(s) ==
    IF s = <<>> THEN <<>>
    ELSE (IF Head(s) = Quote THEN <<Quote, Quote>> ELSE <<Head(s)>>)
         \o doubleQuotes(Tail(s))

\* csv-writer's field stringifier: nothing for undefined, null and '',
\* String(value) otherwise, quoted when it holds a delimiter or a quote
CsvField(value) ==
    IF value.t \in {"undefined", "null"} THEN <<>>
    ELSE LET str == ToStr(value)
         IN  IF \E i \in DOMAIN str : str[i] \in {Comma, Quote, Newline}
             THEN <<Quote>> \o doubleQuotes(str) \o <<Quote>>
             ELSE str

CsvHeader == <<"T","i","m","e","s","t","a","m","p",",","M","e","t","r","i","c",",","V","a","l","u","e",",","D","e","v","i","c","e">> \o <<Newline>>

CsvLine(record) ==
    CsvField(record.timestamp) \o <<Comma>> \o CsvField(record.metric) \o <<Comma>>
    \o CsvField(Str(record.value)) \o <<Comma>> \o CsvField(record.device)
    \o <<Newline>>

\* createObjectCsvWriter({path, header}).writeRecords(results)
RECURSIVE CsvRecords(_, _)
CsvRecords(records, i) ==
    IF i > Len(records) THEN <<>>
    ELSE CsvLine(records[i]) \o CsvRecords(records, i + 1)

CsvOf(records) == CsvHeader \o CsvRecords(records, 1)

\* req.file.filename, which multer draws at random for every upload
FileId(req) == req.root.name

Throw(kind) == /\ thrown' = kind
               /\ pc' = "catch"

(***************************************************************************)
(* index.ts: app.post('/upload').  The handler runs from its start to the  *)
(* first await without yielding; it is cut into steps at its statements.   *)
(***************************************************************************)
\* lines 206-208
IndexNoFile ==
    /\ impl = "index" /\ pc = "start"
    /\ ~request.hasFile
    /\ response' = ErrorResponse(400, "NoFile")
    /\ pc' = "done"
    /\ UNCHANGED <<impl, request, extractPath, extractDir, uploadFile, fitFiles, todo,
                   allData, devices, metrics, thrown>>
    /\ Apart

\* lines 213-215
IndexNotZip ==
    /\ impl = "index" /\ pc = "start"
    /\ request.hasFile
    /\ ~endsWith(toLowerCase(request.originalname), <<".","z","i","p">>)
    /\ Throw("NotZip")
    /\ UNCHANGED <<impl, request, extractPath, extractDir, uploadFile, fitFiles, todo,
                   allData, devices, metrics, response>>
    /\ Apart

\* lines 219-223: new AdmZip raises on a file that is no archive, before
\* extractPath is assigned; extractAllTo raises on a damaged entry, after
\* it has created the directory
IndexUnpack ==
    /\ impl = "index" /\ pc = "start"
    /\ request.hasFile
    /\ endsWith(toLowerCase(request.originalname), <<".","z","i","p">>)
    /\ IF request.zip = "unreadable"
       THEN Throw("CorruptArchive") /\ UNCHANGED <<extractPath, extractDir>>
       ELSE IF request.zip = "damaged"
       THEN Throw("CorruptArchive") /\ extractPath' = TRUE /\ extractDir' = TRUE
       ELSE /\ extractPath' = TRUE
            /\ extractDir' = TRUE
            /\ pc' = "walk"
            /\ UNCHANGED thrown
    /\ UNCHANGED <<impl, request, uploadFile, fitFiles, todo, allData,
                   devices, metrics, response>>
    /\ Apart

\* lines 226-236
IndexWalk ==
    /\ impl = "index" /\ pc = "walk"
    /\ fitFiles' = findFitFiles(request.root)
    /\ todo' = findFitFiles(request.root)
    /\ IF Len(findFitFiles(request.root)) = 0
       THEN Throw("NoFitDataFound")
       ELSE pc' = "files" /\ UNCHANGED thrown
    /\ UNCHANGED <<impl, request, extractPath, extractDir, uploadFile, allData,
                   devices, metrics, response>>
    /\ Apart

\* IndexProcessFile with the loop left at a file that does not parse
IndexProcessFileBreaking ==
    /\ impl = "index" /\ pc = "files"
    /\ todo # <<>>
    /\ LET acc == processFile(Head(todo), Acc(allData, devices, metrics))
       IN  /\ allData' = acc.allData
           /\ devices' = acc.devices
           /\ metrics' = acc.metrics
    /\ todo' = IF Head(todo).readOk /\ ~Head(todo).parses THEN <<>> ELSE Tail(todo)
    /\ UNCHANGED <<impl, request, pc, extractPath, extractDir, uploadFile, fitFiles,
                   thrown, response>>
    /\ Apart

\* lines 239-274, one turn of the loop
IndexProcessFile ==
    /\ impl = "index" /\ pc = "files"
    /\ todo # <<>>
    /\ LET acc == processFile(Head(todo), Acc(allData, devices, metrics))
       IN  /\ allData' = acc.allData
           /\ devices' = acc.devices
           /\ metrics' = acc.metrics
    /\ todo' = Tail(todo)
    /\ UNCHANGED <<impl, request, pc, extractPath, extractDir, uploadFile, fitFiles,
                   thrown, response>>
    /\ Apart

\* lines 277-278
IndexCleanUp ==
    /\ impl = "index" /\ pc = "files"
    /\ todo = <<>>
    /\ uploadFile' = FALSE
    /\ extractDir' = FALSE
    /\ pc' = "finish"
    /\ UNCHANGED <<impl, request, extractPath, fitFiles, todo, allData,
                   devices, metrics, thrown, response>>
    /\ Apart

\* lines 280-282
IndexNoValidData ==
    /\ impl = "index" /\ pc = "finish"
    /\ Len(allData) = 0
    /\ Throw("NoValidDataFound")
    /\ UNCHANGED <<impl, request, extractPath, extractDir, uploadFile, fitFiles, todo,
                   allData, devices, metrics, response>>
    /\ Apart

\* IndexRespond without the test of lines 280-282 before it
IndexRespondUnchecked ==
    /\ impl = "index" /\ pc = "finish"
    /\ allData' = sortByTimestamp(allData)
    /\ response' = SuccessResponse(sortByTimestamp(allData), devices, metrics)
    /\ pc' = "done"
    /\ UNCHANGED <<impl, request, extractPath, extractDir, uploadFile, fitFiles, todo,
                   devices, metrics, thrown>>
    /\ Apart

\* lines 284-294
IndexRespond ==
    /\ impl = "index" /\ pc = "finish"
    /\ Len(allData) # 0
    /\ allData' = sortByTimestamp(allData)
    /\ response' = SuccessResponse(sortByTimestamp(allData), devices, metrics)
    /\ pc' = "done"
    /\ UNCHANGED <<impl, request, extractPath, extractDir, uploadFile, fitFiles, todo,
                   devices, metrics, thrown>>
    /\ Apart

\* lines 296-309
IndexCatch ==
    /\ impl = "index" /\ pc = "catch"
    /\ extractDir' = IF extractPath THEN FALSE ELSE extractDir
    /\ uploadFile' = FALSE
    /\ response' = ErrorResponse(500, thrown)
    /\ pc' = "done"
    /\ UNCHANGED <<impl, request, extractPath, fitFiles, todo, allData,
                   devices, metrics, thrown>>
    /\ Apart

(***************************************************************************)
(* part_000: app.post('/upload') and processJsonFiles.                     *)
(***************************************************************************)
\* lines 248-250
PartNoFile ==
    /\ impl = "part000" /\ pc = "start"
    /\ ~request.hasFile
    /\ response' = ErrorResponse(400, "NoFile")
    /\ pc' = "done"
    /\ UNCHANGED <<impl, request, extractPath, extractDir, uploadFile, fitFiles, todo,
                   allData, devices, metrics, thrown>>
    /\ Apart

\* lines 252-255
PartNotZip ==
    /\ impl = "part000" /\ pc = "start"
    /\ request.hasFile
    /\ ~endsWith(request.originalname, <<".","z","i","p">>)
    /\ uploadFile' = FALSE
    /\ response' = ErrorResponse(400, "NotZip")
    /\ pc' = "done"
    /\ UNCHANGED <<impl, request, extractPath, extractDir, fitFiles, todo, allData, devices, metrics, thrown>>
    /\ Apart

\* lines 257-262: extractPath is assigned before the archive is opened
PartUnpack ==
    /\ impl = "part000" /\ pc = "start"
    /\ request.hasFile
    /\ endsWith(request.originalname, <<".","z","i","p">>)
    /\ extractPath' = TRUE
    /\ IF request.zip = "unreadable"
       THEN Throw("CorruptArchive") /\ UNCHANGED extractDir
       ELSE IF request.zip = "damaged"
       THEN Throw("CorruptArchive") /\ extractDir' = TRUE
       ELSE /\ extractDir' = TRUE
            /\ pc' = "find"
            /\ UNCHANGED thrown
    /\ UNCHANGED <<impl, request, uploadFile, fitFiles, todo, allData,
                   devices, metrics, response>>
    /\ Apart

\* lines 94-101
PartFindDirectories ==
    /\ impl = "part000" /\ pc = "find"
    /\ LET found == findFitDataDirectory(request.root)
       IN  IF found.threw THEN Throw("IOError") /\ UNCHANGED todo
           ELSE IF Len(found.dirs) = 0 THEN Throw("NoFitDataFound") /\ UNCHANGED todo
           ELSE /\ todo' = found.dirs
                /\ pc' = "dirs"
                /\ UNCHANGED thrown
    /\ UNCHANGED <<impl, request, extractPath, extractDir, uploadFile, fitFiles,
                   allData, devices, metrics, response>>
    /\ Apart

\* lines 105-112 and 198-200: the next entry is a directory; its entries
\* are visited before the entries that follow it
PartEnterDirectory ==
    /\ impl = "part000" /\ pc = "dirs"
    /\ todo # <<>>
    /\ Head(todo).kind = "dir"
    /\ IF ~Head(todo).statOk \/ ~Head(todo).readOk
       THEN Throw("IOError") /\ UNCHANGED todo
       ELSE /\ todo' = Head(todo).entries \o Tail(todo)
            /\ UNCHANGED <<pc, thrown>>
    /\ UNCHANGED <<impl, request, extractPath, extractDir, uploadFile, fitFiles,
                   allData, devices, metrics, response>>
    /\ Apart

\* lines 107-193: the next entry is a file
PartVisitFile ==
    /\ impl = "part000" /\ pc = "dirs"
    /\ todo # <<>>
    /\ Head(todo).kind = "file"
    /\ IF ~Head(todo).statOk
       THEN /\ Throw("IOError")
            /\ UNCHANGED <<todo, fitFiles, allData, devices, metrics>>
       ELSE /\ todo' = Tail(todo)
            /\ UNCHANGED <<pc, thrown>>
            /\ IF endsWith(toLowerCase(Head(todo).name), <<".","j","s","o","n">>)
               THEN LET acc == processJsonFile(Head(todo), Acc(allData, devices, metrics))
                    IN  /\ allData' = acc.allData
                        /\ devices' = acc.devices
                        /\ metrics' = acc.metrics
                        /\ fitFiles' = Append(fitFiles, Head(todo))
               ELSE UNCHANGED <<fitFiles, allData, devices, metrics>>
    /\ UNCHANGED <<impl, request, extractPath, extractDir, uploadFile, response>>
    /\ Apart

\* lines 202-204
PartNoValidData ==
    /\ impl = "part000" /\ pc = "dirs"
    /\ todo = <<>>
    /\ Len(allData) = 0
    /\ Throw("NoValidDataFound")
    /\ UNCHANGED <<impl, request, extractPath, extractDir, uploadFile, fitFiles, todo,
                   allData, devices, metrics, response>>
    /\ Apart

\* PartSortAndSave with the hash taken of the records as they were before
\* the sort
PartSortAndSaveStampEarly ==
    /\ impl = "part000" /\ pc = "dirs"
    /\ todo = <<>>
    /\ Len(allData) # 0
    /\ allData' = sortByTimestamp(allData)
    /\ processed' = Put(processed, FileId(request), CsvOf(allData'))
    /\ fileMetadata' = Put(fileMetadata, FileId(request),
                           [hash |-> calculateFileHash(CsvOf(allData)),
                            devices |-> devices, metrics |-> metrics])
    /\ stamped' = Put(stamped, FileId(request), CsvOf(allData'))
    /\ pc' = "cleanup"
    /\ UNCHANGED <<impl, request, extractPath, extractDir, uploadFile, fitFiles, todo,
                   devices, metrics, thrown, response>>
    /\ UNCHANGED <<parked, processedData, hashDirs>>
    /\ reply' = NoResponse

\* lines 206-241: the sort, the CSV file under processed/<fileId>, its hash
\* taken from the file just written, the metadata entry
PartSortAndSave ==
    /\ impl = "part000" /\ pc = "dirs"
    /\ todo = <<>>
    /\ Len(allData) # 0
    /\ allData' = sortByTimestamp(allData)
    /\ processed' = Put(processed, FileId(request), CsvOf(allData'))
    /\ fileMetadata' = Put(fileMetadata, FileId(request),
                           [hash |-> calculateFileHash(processed'[FileId(request)]),
                            devices |-> devices, metrics |-> metrics])
    /\ stamped' = Put(stamped, FileId(request), CsvOf(allData'))
    /\ pc' = "cleanup"
    /\ UNCHANGED <<impl, request, extractPath, extractDir, uploadFile, fitFiles, todo,
                   devices, metrics, thrown, response>>
    /\ UNCHANGED <<parked, processedData, hashDirs>>
    /\ reply' = NoResponse

\* lines 267-275
PartRespond ==
    /\ impl = "part000" /\ pc = "cleanup"
    /\ extractDir' = FALSE
    /\ uploadFile' = FALSE
    /\ response' = ProcessedResponse(allData, devices, metrics)
    /\ pc' = "done"
    /\ UNCHANGED <<impl, request, extractPath, fitFiles, todo, allData,
                   devices, metrics, thrown>>
    /\ Apart

\* lines 276-289
PartCatch ==
    /\ impl = "part000" /\ pc = "catch"
    /\ extractDir' = IF extractPath THEN FALSE ELSE extractDir
    /\ uploadFile' = FALSE
    /\ response' = ErrorResponse(500, thrown)
    /\ pc' = "done"
    /\ UNCHANGED <<impl, request, extractPath, fitFiles, todo, allData,
                   devices, metrics, thrown>>
    /\ Apart

Next ==
    \/ IndexNoFile \/ IndexNotZip \/ IndexUnpack \/ IndexWalk \/ IndexProcessFile
    \/ IndexCleanUp \/ IndexNoValidData \/ IndexRespond \/ IndexCatch
    \/ PartNoFile \/ PartNotZip \/ PartUnpack \/ PartFindDirectories
    \/ PartEnterDirectory \/ PartVisitFile \/ PartNoValidData \/ PartSortAndSave
    \/ PartRespond \/ PartCatch

(***************************************************************************)
(* part_002: app.post('/api/upload') and processGoogleFitData.  The        *)
(* extraction directory is named by the hash of the uploaded bytes, so     *)
(* uploads of the same bytes have the same one: hashDirs holds the hashes  *)
(* whose directory is on disk.  allData holds the entries pushed to        *)
(* data.heartRate and data.steps, each with the name of its series.        *)
(***************************************************************************)
\* the bytes of the uploaded archive
ArchiveBytes(req) == [zip |-> req.zip, entries |-> req.root.entries]

\* line 110
FileHash(req) == calculateFileHash(ArchiveBytes(req))

\* lines 134-137
FailureResponse(kind) ==
    [status |-> 500, keys |-> {"success", "error"}, error |-> kind, data |-> <<>>,
     devices |-> <<>>, metrics |-> <<>>]

\* lines 127-131
StoredResponse ==
    [status |-> 200, keys |-> {"success", "fileHash", "message"}, error |-> "",
     data |-> <<>>, devices |-> <<>>, metrics |-> <<>>]

\* the entries of the directory of that name, if it is there
RECURSIVE Lookup(_, _, _)
Lookup(entries, name, i) ==
    IF i > Len(entries) THEN [found |-> FALSE, node |-> Undefined]
    ELSE IF entries[i].name = name /\ entries[i].statOk
         THEN [found |-> TRUE, node |-> entries[i]]
         ELSE Lookup(entries, name, i + 1)

\* join(extractPath, 'Takeout', 'Fit', 'Daily activity metrics')
fitPath(root) ==
    LET takeout == Lookup(root.entries, <<"T","a","k","e","o","u","t">>, 1)
        fit == IF takeout.found THEN Lookup(takeout.node.entries, <<"F","i","t">>, 1)
               ELSE takeout
    IN  IF fit.found THEN Lookup(fit.node.entries, <<"D","a","i","l","y"," ","a","c","t","i","v","i","t","y"," ","m","e","t","r","i","c","s">>, 1)
        ELSE fit

\* value?.[0]
Index0(v) ==
    CASE v.t = "arr" -> First(v)
      [] v.t = "str" /\ v.s # <<>> -> Str(<<v.s[1]>>)
      [] v.t = "obj" -> Get(v, "0")
      [] OTHER -> Undefined

\* lines 79-82 and 86-89: one entry of content.data
RECURSIVE forEachEntry(_, _, _, _, _)
forEachEntry(entries, i, series, typed, acc) ==
    IF i > Len(entries) THEN acc
    ELSE IF IsNullish(entries[i]) THEN [acc EXCEPT !.threw = "TypeError"]
    ELSE IF DateOf(Get(entries[i], "startTime")).nan
         THEN [acc EXCEPT !.threw = "RangeError"]
    ELSE forEachEntry(entries, i + 1, series, typed,
            [acc EXCEPT !.allData = Append(@,
                [series |-> series,
                 time |-> toISOString(DateOf(Get(entries[i], "startTime")).ms),
                 value |-> OrElse(Get(Index0(Get(entries[i], "value")), typed),
                                  Num(0))])])

\* content.data?.forEach(...)
forEachOf(content, series, typed, acc) ==
    IF IsNullish(content) THEN [acc EXCEPT !.threw = "TypeError"]
    ELSE IF IsNullish(Get(content, "data")) THEN acc
    ELSE IF Get(content, "data").t # "arr" THEN [acc EXCEPT !.threw = "TypeError"]
    ELSE forEachEntry(Get(content, "data").a, 1, series, typed, acc)

\* lines 68-93, one file of the directory
readFitFile(file, acc) ==
    IF ~endsWith(file.name, <<".","j","s","o","n">>) THEN acc
    ELSE IF ~(file.kind = "file" /\ file.readOk /\ file.parses)
         THEN [acc EXCEPT !.threw = "IOError"]
    ELSE IF IsNullish(file.data) THEN [acc EXCEPT !.threw = "TypeError"]
    ELSE LET seen == IF Truthy(Get(file.data, "device"))
                     THEN [acc EXCEPT !.devices = SetAdd(@, Get(file.data, "device"))]
                     ELSE acc
         IN  IF includes(file.name, <<"h","e","a","r","t","_","r","a","t","e">>)
             THEN forEachOf(file.data, "heartRate", "fpVal", seen)
             ELSE IF includes(file.name, <<"s","t","e","p","_","c","o","u","n","t">>)
                  THEN forEachOf(file.data, "steps", "intVal", seen)
                  ELSE seen

\* lines 105-107: the raise is inside the try
P2NoFile ==
    /\ impl = "part002" /\ pc = "start"
    /\ ~request.hasFile
    /\ Throw("NoFile")
    /\ UNCHANGED <<impl, request, extractPath, extractDir, uploadFile, fitFiles, todo,
                   allData, devices, metrics, response>>
    /\ Apart

\* lines 109-114: extract makes the directory before it opens the archive
P2Unpack ==
    /\ impl = "part002" /\ pc = "start"
    /\ request.hasFile
    /\ extractPath' = TRUE
    /\ hashDirs' = hashDirs \cup {FileHash(request)}
    /\ IF request.zip = "ok" THEN pc' = "locate" /\ UNCHANGED thrown
       ELSE Throw("CorruptArchive")
    /\ UNCHANGED <<impl, request, extractDir, uploadFile, fitFiles, todo,
                   allData, devices, metrics, response>>
    /\ UNCHANGED <<parked, processed, fileMetadata, stamped, processedData>>
    /\ reply' = NoResponse

\* lines 49-65
P2Locate ==
    /\ impl = "part002" /\ pc = "locate"
    /\ IF FileHash(request) \notin hashDirs \/ ~fitPath(request.root).found
       THEN Throw("InvalidStructure") /\ UNCHANGED todo
       ELSE IF ~(fitPath(request.root).node.kind = "dir"
                 /\ fitPath(request.root).node.readOk)
       THEN Throw("IOError") /\ UNCHANGED todo
       ELSE /\ todo' = fitPath(request.root).node.entries
            /\ pc' = "read"
            /\ UNCHANGED thrown
    /\ UNCHANGED <<impl, request, extractPath, extractDir, uploadFile, fitFiles,
                   allData, devices, metrics, response>>
    /\ Apart

\* lines 67-94, one turn of the loop
P2ReadFile ==
    /\ impl = "part002" /\ pc = "read"
    /\ todo # <<>>
    /\ LET acc == IF FileHash(request) \notin hashDirs
                     /\ endsWith(Head(todo).name, <<".","j","s","o","n">>)
                  THEN [allData |-> allData, devices |-> devices, threw |-> "IOError"]
                  ELSE readFitFile(Head(todo),
                          [allData |-> allData, devices |-> devices, threw |-> ""])
       IN  /\ allData' = acc.allData
           /\ devices' = acc.devices
           /\ IF acc.threw # "" THEN Throw(acc.threw) /\ UNCHANGED todo
              ELSE todo' = Tail(todo) /\ UNCHANGED <<pc, thrown>>
    /\ fitFiles' = Append(fitFiles, Head(todo))
    /\ UNCHANGED <<impl, request, extractPath, extractDir, uploadFile, metrics, response>>
    /\ Apart

\* lines 97-121
P2Store ==
    /\ impl = "part002" /\ pc = "read"
    /\ todo = <<>>
    /\ processedData' = Put(processedData, FileHash(request),
                            [entries |-> allData, devices |-> devices,
                             fileHash |-> FileHash(request)])
    /\ pc' = "cleanup"
    /\ UNCHANGED <<impl, request, extractPath, extractDir, uploadFile, fitFiles, todo,
                   allData, devices, metrics, thrown, response>>
    /\ UNCHANGED <<parked, processed, fileMetadata, stamped, hashDirs>>
    /\ reply' = NoResponse

\* lines 123-131
P2CleanUp ==
    /\ impl = "part002" /\ pc = "cleanup"
    /\ uploadFile' = FALSE
    /\ hashDirs' = hashDirs \ {FileHash(request)}
    /\ response' = StoredResponse
    /\ pc' = "done"
    /\ UNCHANGED <<impl, request, extractPath, extractDir, fitFiles, todo, allData,
                   devices, metrics, thrown>>
    /\ UNCHANGED <<parked, processed, fileMetadata, stamped, processedData>>
    /\ reply' = NoResponse

\* lines 132-138: nothing is removed
P2Catch ==
    /\ impl = "part002" /\ pc = "catch"
    /\ response' = FailureResponse(thrown)
    /\ pc' = "done"
    /\ UNCHANGED <<impl, request, extractPath, extractDir, uploadFile, fitFiles, todo,
                   allData, devices, metrics, thrown>>
    /\ Apart

(***************************************************************************)
(* Two invocations of the upload handler on one server.  Node runs one     *)
(* handler at a time and passes to another where the running one awaits;   *)
(* here the running invocation may be parked after any of its steps, which *)
(* covers every await.  Each invocation has its own locals (the closures   *)
(* of the code); the variables of `shared` are the server's.               *)
(***************************************************************************)
Invocation(req, at, path, dir, file, files, rest, data, devs, mets, err, res) ==
    [request |-> req, pc |-> at, extractPath |-> path, extractDir |-> dir,
     uploadFile |-> file, fitFiles |-> files, todo |-> rest, allData |-> data,
     devices |-> devs, metrics |-> mets, thrown |-> err, response |-> res]

\* an invocation that multer has just handed the request
Arrived(req) ==
    Invocation(req, "start", FALSE, FALSE, req.hasFile, <<>>, <<>>, <<>>, <<>>, <<>>,
               "", NoResponse)

Running ==
    Invocation(request, pc, extractPath, extractDir, uploadFile, fitFiles, todo,
               allData, devices, metrics, thrown, response)

\* Switch with one record buffer for the two invocations
SwitchSharedBuffer ==
    /\ parked # NoInvocation
    /\ parked' = Running
    /\ request' = parked.request
    /\ pc' = parked.pc
    /\ extractPath' = parked.extractPath
    /\ extractDir' = parked.extractDir
    /\ uploadFile' = parked.uploadFile
    /\ fitFiles' = parked.fitFiles
    /\ todo' = parked.todo
    /\ allData' = allData
    /\ devices' = parked.devices
    /\ metrics' = parked.metrics
    /\ thrown' = parked.thrown
    /\ response' = parked.response
    /\ UNCHANGED <<impl, processed, fileMetadata, stamped, processedData, hashDirs>>
    /\ reply' = NoResponse

\* the running invocation waits (or has ended) and the other one goes on
Switch ==
    /\ parked # NoInvocation
    /\ parked' = Running
    /\ request' = parked.request
    /\ pc' = parked.pc
    /\ extractPath' = parked.extractPath
    /\ extractDir' = parked.extractDir
    /\ uploadFile' = parked.uploadFile
    /\ fitFiles' = parked.fitFiles
    /\ todo' = parked.todo
    /\ allData' = parked.allData
    /\ devices' = parked.devices
    /\ metrics' = parked.metrics
    /\ thrown' = parked.thrown
    /\ response' = parked.response
    /\ UNCHANGED <<impl, processed, fileMetadata, stamped, processedData, hashDirs>>
    /\ reply' = NoResponse

(***************************************************************************)
(* part_000: app.get('/data/:fileId') and app.get('/verify/:fileId').      *)
(***************************************************************************)
\* String.prototype.split on one character: the pieces between the places
\* of the separator
split(s, sep) ==
    LET places == {i \in DOMAIN s : s[i] = sep}
        place(k) == IF k = 0 THEN 0
                    ELSE IF k > Cardinality(places) THEN Len(s) + 1
                    ELSE CHOOSE i \in places :
                             Cardinality({j \in places : j <= i}) = k
    IN  [k \in 1..(Cardinality(places) + 1) |->
            SubSeq(s, place(k - 1) + 1, place(k) - 1)]

\* String.prototype.trim, which takes line breaks for white space as well
IsBlank(c) == IsSpace(c) \/ c = Newline
RECURSIVE trimLeft(_)
trimLeft(s) == IF s # <<>> /\ IsBlank(Head(s)) THEN trimLeft(Tail(s)) ELSE s
RECURSIVE trimRight(_)
trimRight(s) ==
    IF s # <<>> /\ IsBlank(s[Len(s)]) THEN trimRight(SubSeq(s, 1, Len(s) - 1)) ELSE s
trimAll(s) == trimRight(trimLeft(s))

\* the property name a sequence of characters spells
RECURSIVE Text(_)
Text(s) == IF s = <<>> THEN "" ELSE Head(s) \o Text(Tail(s))

\* lines 310-315: the cells of a line under the names of the header line
RowOf(headers, values) ==
    Obj([h \in {Text(headers[i]) : i \in DOMAIN headers} |->
            LET i == CHOOSE k \in DOMAIN headers :
                        /\ Text(headers[k]) = h
                        /\ \A m \in DOMAIN headers : Text(headers[m]) = h => m <= k
            IN  IF i <= Len(values) THEN Str(trimAll(values[i])) ELSE Undefined])

RECURSIVE trimEach(_)
trimEach(cells) ==
    IF cells = <<>> THEN <<>> ELSE <<trimAll(Head(cells))>> \o trimEach(Tail(cells))

RECURSIVE rowsFrom(_, _, _)
rowsFrom(headers, lines, i) ==
    IF i > Len(lines) THEN <<>>
    ELSE (IF trimAll(lines[i]) # <<>>
          THEN <<RowOf(headers, split(lines[i], Comma))>> ELSE <<>>)
         \o rowsFrom(headers, lines, i + 1)

\* lines 303-316
parseCsv(csvContent) ==
    LET lines == split(trimAll(csvContent), Newline)
    IN  rowsFrom(trimEach(split(lines[1], Comma)), lines, 2)

\* new Date(), later than every instant of the uploads
Now == 2000000000

\* lines 335-338 with startDate = new Date(0); parseISO gives an invalid
\* date for what is not a string
InTimeRange(item) ==
    /\ Get(item, "timestamp").t = "str"
    /\ ~DateParse(Get(item, "timestamp").s).nan
    /\ DateParse(Get(item, "timestamp").s).ms >= 0
    /\ DateParse(Get(item, "timestamp").s).ms <= Now

NotFound(kind) ==
    [status |-> 404, keys |-> {"error"}, error |-> kind, fileId |-> <<>>]
Failed(kind) ==
    [status |-> 500, keys |-> {"error"}, error |-> kind, fileId |-> <<>>]

\* fileIds a client may ask for
UploadName2 == <<"7","b","2","1","e","4","a","a">>
FileIds == {UploadName, UploadName2, <<"u","n","k","n","o","w","n">>}

\* lines 292-351
ReadData ==
    /\ impl = "part000"
    /\ pc = "done"
    /\ \E fileId \in FileIds, timeRange \in {"", "all"} :
         reply' =
            IF fileId \notin DOMAIN processed THEN NotFound("DataNotFound")
            ELSE [status |-> 200, keys |-> {"data", "metadata"}, error |-> "",
                  fileId |-> fileId,
                  data |-> IF timeRange = "" THEN parseCsv(processed[fileId])
                           ELSE SelectSeq(parseCsv(processed[fileId]), InTimeRange),
                  metadata |-> IF fileId \in DOMAIN fileMetadata
                               THEN fileMetadata[fileId] ELSE Undefined]
    /\ UNCHANGED <<impl, locals, shared>>

\* lines 353-379
Verify ==
    /\ impl = "part000"
    /\ pc = "done"
    /\ \E fileId \in FileIds :
         reply' =
            IF fileId \notin DOMAIN fileMetadata THEN NotFound("FileNotFound")
            ELSE IF fileId \notin DOMAIN processed THEN Failed("IOError")
            ELSE [status |-> 200,
                  keys |-> {"verified", "originalHash", "currentHash", "timestamp",
                            "devices", "metrics"},
                  error |-> "", fileId |-> fileId,
                  verified |-> fileMetadata[fileId].hash
                                   = calculateFileHash(processed[fileId]),
                  originalHash |-> fileMetadata[fileId].hash,
                  currentHash |-> calculateFileHash(processed[fileId])]
    /\ UNCHANGED <<impl, locals, shared>>

\* the places of an artifact where the model alters a character: its first
\* and its last MaxAltered characters
Places(bytes) ==
    {i \in DOMAIN bytes : i <= MaxAltered \/ i > Len(bytes) - MaxAltered}

\* someone alters one character of a stored artifact, or puts back what
\* was written, while no upload is in flight
Tamper ==
    /\ pc = "done" /\ parked # NoInvocation /\ parked.pc = "done"
    /\ \E fileId \in DOMAIN processed :
         \/ /\ \A id \in DOMAIN processed : processed[id] = stamped[id]
            /\ \E i \in Places(processed[fileId]) :
                 /\ processed[fileId][i] # "X"
                 /\ processed' = Put(processed, fileId,
                                     [processed[fileId] EXCEPT ![i] = "X"])
         \/ /\ processed[fileId] # stamped[fileId]
            /\ processed' = Put(processed, fileId, stamped[fileId])
    /\ reply' = NoResponse
    /\ UNCHANGED <<impl, locals, parked, fileMetadata, stamped, processedData, hashDirs>>

(***************************************************************************)
(* The uploads the model runs the servers on.                              *)
(***************************************************************************)
T1 == <<"1","9","7","0","-","0","1","-","0","1","T","0","0",":","0","0",":","0","1","Z">>
T2 == <<"1","9","7","0","-","0","1","-","0","1","T","0","0",":","0","0",":","0","2",".","0","0","0","Z">>
T2East == <<"1","9","7","0","-","0","1","-","0","1","T","0","1",":","0","0",":","0","2","+","0","1",":","0","0">>
T3 == <<"1","9","7","0","-","0","1","-","0","1","T","0","0",":","0","0",":","0","3","Z">>
Day2 == <<"1","9","7","0","-","0","1","-","0","2">>
NotADate == <<"n","/","a">>

Upload(entries) ==
    [hasFile |-> TRUE, originalname |-> <<"t","a","k","e","o","u","t",".","z","i","p">>, zip |-> "ok",
     root |-> Dir(UploadName, entries)]

Point(fields) == Obj(fields)
Reading(time, n) == Point([startTime |-> Str(time), value |-> Num(n)])

\* what a file of the given name may hold
FileBodies(name) ==
    { File(name, Arr(<<Reading(T3, 7)>>)),
      File(name, Reading(T1, 5)),
      File(name, Arr(<<Point([value |-> Num(5)])>>)),
      File(name, Arr(<<>>)),
      Malformed(name),
      Unreadable(File(name, Arr(<<Reading(T2, 6)>>))) }

FewBodies(name, time) ==
    { File(name, Arr(<<Reading(time, 1), Reading(T2, 2)>>)),
      Malformed(name),
      Unreadable(File(name, Arr(<<Reading(T2, 6)>>))) }

InFit(entries) == <<Dir(<<"T","a","k","e","o","u","t">>, <<Dir(<<"F","i","t">>, entries)>>)>>

Trees ==
    \* Takeout/Fit/All Data/a.json, Takeout/Fit/b.json
    { InFit(<<Dir(<<"A","l","l"," ","D","a","t","a">>, <<a>>), b>>) :
        a \in FileBodies(<<"a",".","j","s","o","n">>), b \in FileBodies(<<"b",".","j","s","o","n">>) }
    \* three files side by side
    \cup { InFit(<<a, b, c>>) :
        a \in FewBodies(<<"a",".","j","s","o","n">>, T3), b \in FewBodies(<<"b",".","j","s","o","n">>, T1),
        c \in FewBodies(<<"c",".","j","s","o","n">>, T2) }
    \* a subfolder that carries no marker, and a file that is not JSON
    \cup { InFit(<<Dir(<<"D","a","i","l","y"," ","a","c","t","i","v","i","t","y"," ","m","e","t","r","i","c","s">>, <<a>>),
                   File(<<"r","e","a","d","m","e",".","t","x","t">>, Undefined)>>) :
        a \in FileBodies(<<"a",".","j","s","o","n">>) }
    \* JSON files outside every category directory
    \cup { <<Dir(<<"T","a","k","e","o","u","t">>, <<Dir(<<"P","h","o","t","o","s">>, <<a>>)>>), b>> :
        a \in FileBodies(<<"a",".","j","s","o","n">>), b \in FileBodies(<<"b",".","J","S","O","N">>) }
    \* an empty category directory beside JSON files elsewhere
    \cup { <<Dir(<<"T","a","k","e","o","u","t">>, <<Dir(<<"F","i","t">>, <<>>), Dir(<<"P","h","o","t","o","s">>, <<a>>)>>)>> :
        a \in FileBodies(<<"a",".","j","s","o","n">>) }
    \* a category directory named by the fitness pattern, at the top
    \cup { <<Dir(<<"M","y"," ","F","i","t","n","e","s","s"," ","D","a","t","a">>, <<a>>), Dir(<<"f","i","t","n","e","s","s">>, <<b>>)>> :
        a \in FileBodies(<<"a",".","j","s","o","n">>), b \in FileBodies(<<"B",".","J","S","O","N">>) }
    \* the markers in lower case
    \cup { <<Dir(<<"t","a","k","e","o","u","t">>, <<Dir(<<"f","i","t">>, <<a>>)>>)>> : a \in FewBodies(<<"a",".","j","s","o","n">>, T1) }
    \* entries that cannot be read or inspected
    \cup { InFit(<<Unreadable(Dir(<<"A","l","l"," ","D","a","t","a">>, <<a>>)), b>>) :
        a \in FileBodies(<<"a",".","j","s","o","n">>), b \in FileBodies(<<"b",".","j","s","o","n">>) }
    \cup { InFit(<<a, NoStat(File(<<"x",".","j","s","o","n">>, Arr(<<Reading(T1, 1)>>))), b>>) :
        a \in FewBodies(<<"a",".","j","s","o","n">>, T3), b \in FewBodies(<<"b",".","j","s","o","n">>, T1) }
    \cup { <<NoStat(Dir(<<"T","a","k","e","o","u","t">>, <<>>))>>,
           <<Dir(<<"T","a","k","e","o","u","t">>, <<Unreadable(Dir(<<"P","h","o","t","o","s">>, <<>>))>>)>>,
           InFit(<<Dir(<<"O","l","d">>, <<NoStat(Dir(<<"x">>, <<>>))>>)>>) }

BaseRequests ==
    { Upload(tree) : tree \in Trees }
    \cup { [Upload(InFit(<<File(<<"a",".","j","s","o","n">>, Arr(<<Reading(T1, 5)>>))>>))
               EXCEPT !.originalname = name, !.zip = zip, !.hasFile = has] :
             name \in {<<"t","a","k","e","o","u","t",".","z","i","p">>, <<"T","A","K","E","O","U","T",".","Z","I","P">>, <<"n","o","t","e","s",".","t","x","t">>},
             zip \in {"ok", "unreadable", "damaged"},
             has \in BOOLEAN }

\* one file of several points: every sequence of at most MaxPoints of these
SeqPoints ==
    << Null,
       Num(5),
       Point([value |-> Num(5)]),
       Reading(T3, 3),
       Reading(T1, 1),
       Reading(T2East, 2),
       Reading(NotADate, 4) >>

PointSequences ==
    UNION { { [i \in 1..n |-> SeqPoints[pick[i]]] : pick \in [1..n -> DOMAIN SeqPoints] } :
            n \in 0..MaxPoints }

SequenceRequests ==
    { Upload(InFit(<<File(<<"h","e","a","r","t","_","r","a","t","e",".","j","s","o","n">>, Arr(points))>>)) : points \in PointSequences }

\* one file of one point: the shapes of its value, of its time fields and
\* of its device fields
ValueShapes ==
    << <<>>,
       [value |-> Num(5)],
       [value |-> Num(0)],
       [value |-> Str(<<>>)],
       [value |-> Str(<<"w","a","l","k","i","n","g">>)],
       [value |-> Null],
       [value |-> Obj(<<>>)],
       [value |-> Arr(<<>>)],
       [value |-> Arr(<<Num(0)>>)],
       [value |-> Arr(<<Num(7)>>)],
       [value |-> Arr(<<Str(<<>>)>>)],
       [value |-> Arr(<<Null>>)],
       [value |-> Arr(<<Obj(<<>>)>>)],
       [value |-> Arr(<<Obj([fpVal |-> Num(72)])>>)],
       [value |-> Arr(<<Obj([intVal |-> Num(0), fpVal |-> Num(7)])>>)],
       [value |-> Arr(<<Obj([stringVal |-> Str(<<>>)])>>)],
       [value |-> Arr(<<Num(0)>>), steps |-> Num(9)],
       [steps |-> Num(0)],
       [activity |-> Str(<<>>), steps |-> Num(4)],
       [bpm |-> Num(61)],
       [fitValue |-> Obj([value |-> Num(3)])],
       [fitValue |-> Str(<<"d","e","e","p">>)],
       [value |-> Arr(<<Obj([fpVal |-> Num(0), stringVal |-> Str(<<"s","l","o","w">>)])>>)],
       [value |-> Arr(<<Obj([intVal |-> Null, stringVal |-> Str(<<"d","e","e","p">>)])>>)],
       [value |-> Arr(<<>>), steps |-> Num(9)],
       [value |-> Arr(<<Obj(<<>>)>>), bpm |-> Num(61)] >>

TimeShapes ==
    << <<>>,
       [startTime |-> Str(T1)],
       [startTime |-> Str(NotADate), endTime |-> Str(T2East)],
       [startTime |-> Str(NotADate)],
       [startTime |-> Str(<<>>)],
       [startTime |-> Num(2000)],
       [createTime |-> Str(T3)],
       [date |-> Str(Day2)] >>

DeviceShapes ==
    << <<>>,
       [device |-> Str(<<"P","i","x","e","l"," ","W","a","t","c","h">>)],
       [device |-> Str(<<>>)],
       [device |-> Str(<<"U","n","k","n","o","w","n"," ","D","e","v","i","c","e">>)],
       [device |-> Null],
       [device |-> Num(7)],
       [device |-> Obj(<<>>)],
       [device |-> Obj([name |-> Str(<<"P","i","x","e","l">>)])],
       [device |-> Obj([name |-> Str(<<>>), model |-> Str(<<"G","T">>)])],
       [device |-> Obj([type |-> Str(<<>>)])],
       [device |-> Obj([manufacturer |-> Num(3)])],
       [device |-> Obj(<<>>), originDataSourceId |-> Str(<<"r","a","w",":","c","o","m",".","g","o","o","g","l","e",".","P","i","x","e","l","_","W","a","t","c","h",":","h","r">>)],
       [device |-> Str(<<>>), originDataSourceId |-> Str(<<"d","e","r","i","v","e","d",":","s","t","e","p","s">>)],
       [originDataSourceId |-> Str(<<"r","a","w",":","c","o","m",".","g","o","o","g","l","e",".","P","i","x","e","l","_","W","a","t","c","h",":","h","r">>)],
       [originDataSourceId |-> Str(<<"d","e","r","i","v","e","d",":","s","t","e","p","s">>)],
       [originDataSourceId |-> Str(<<"U","n","k","n","o","w","n"," ","D","e","v","i","c","e">>)],
       [originDataSourceId |-> Str(<<>>)],
       [originDataSourceId |-> Num(42)],
       [originDataSourceId |-> Obj(<<>>)],
       [originDataSourceId |-> Null] >>

SinglePoints ==
    { Point(ValueShapes[v] @@ TimeShapes[t]) :
        v \in DOMAIN ValueShapes, t \in DOMAIN TimeShapes }
    \cup { Point(ValueShapes[v] @@ TimeShapes[t] @@ DeviceShapes[d]) :
        v \in {2, 14}, t \in {1, 2, 4}, d \in DOMAIN DeviceShapes }
    \cup { Null, Num(5), Num(0), Str(<<"t","e","x","t">>), Bool(TRUE), Arr(<<>>) }

PointRequests ==
    { Upload(InFit(<<File(<<"s","t","e","p","_","c","o","u","n","t",".","j","s","o","n">>, Arr(<<point>>))>>)) : point \in SinglePoints }
    \cup { Upload(InFit(<<File(<<"s","t","e","p","_","c","o","u","n","t",".","j","s","o","n">>, point)>>)) : point \in SinglePoints }

\* the names of the files: a base name, a duplicate numbering, the extension
BaseNames ==
    << <<"d","e","r","i","v","e","d","_","c","o","m",".","g","o","o","g","l","e",".","h","e","a","r","t","_","r","a","t","e",".","s","u","m","m","a","r","y","_","c","o","m",".","g","o","o","g","l","e",".","a","n","d","r","o","i","d">>,
       <<"d","e","r","i","v","e","d","_","c","o","m",".","g","o","o","g","l","e",".","s","t","e","p","_","c","o","u","n","t",".","d","e","l","t","a">>,
       <<"c","o","m",".","g","o","o","g","l","e",".","s","t","e","p","_","c","o","u","n","t",".","d","e","l","t","a">>,
       <<"c","o","m",".","g","o","o","g","l","e",".","s","t","e","p","_","c","o","u","n","t">>,
       <<"f","i","t","n","e","s","s",".","a","c","t","i","v","i","t","y",".","s","e","g","m","e","n","t">>,
       <<"d","e","r","i","v","e","d","_","s","l","e","e","p","_","t","o","t","a","l">>,
       <<"S","t","e","p","s">>,
       <<"s","t","e","p","C","o","u","n","t">>,
       <<"D","a","i","l","y","_","S","u","m","m","a","r","y">>,
       <<"a","(","1",")">>,
       <<"x">> >>

Numberings == << <<>>, <<" ","(","2",")">>, <<" ","(","1","3",")">>, <<"(","1","0",")">>, <<" "," ","(","3",")">> >>

\* a pair of files whose names differ in the numbering only, and the same
\* name in two directories
NameRequests ==
    { Upload(InFit(<<File(BaseNames[b] \o <<".","j","s","o","n">>, Arr(<<Reading(T1, 1)>>)),
                     Dir(<<"A","l","l"," ","D","a","t","a">>,
                         <<File(BaseNames[b] \o Numberings[n] \o <<".","j","s","o","n">>,
                                Arr(<<Reading(T2, 2)>>))>>)>>)) :
        b \in DOMAIN BaseNames, n \in DOMAIN Numberings }

\* points of which two are of one instant, in a file of MaxPoints of them and
\* in two files of one each
TiePoints == << Reading(T3, 3), Reading(T2East, 2), Reading(T2, 7), Reading(T1, 1) >>

TieRequests ==
    { Upload(InFit(<<File(<<"a",".","j","s","o","n">>, Arr([i \in 1..MaxPoints |-> TiePoints[pick[i]]]))>>)) :
        pick \in [1..MaxPoints -> DOMAIN TiePoints] }
    \cup { Upload(InFit(<<File(<<"a",".","j","s","o","n">>, Arr(<<TiePoints[p]>>)),
                          File(<<"b",".","j","s","o","n">>, Arr(<<TiePoints[q]>>))>>)) :
             p \in DOMAIN TiePoints, q \in DOMAIN TiePoints }

\* a point that gives a record beside one that has a device and no time
DroppedRequests ==
    { Upload(InFit(<<File(<<"a",".","j","s","o","n">>,
                          Arr(<<Reading(T1, 1),
                                Point([device |-> Str(<<"B","a","n","d">>), value |-> Num(5)])>>))>>)),
      Upload(InFit(<<File(<<"a",".","j","s","o","n">>, Arr(<<Reading(T1, 1)>>)),
                     File(<<"b",".","j","s","o","n">>, Arr(<<Point([device |-> Str(<<"B","a","n","d">>),
                                                  startTime |-> Str(T2)])>>))>>)) }

Requests == BaseRequests \cup SequenceRequests \cup PointRequests \cup NameRequests
            \cup TieRequests \cup DroppedRequests

Init ==
    /\ impl \in {"index", "part000"}
    /\ request \in Requests
    /\ pc = "start"
    /\ extractPath = FALSE
    /\ extractDir = FALSE
    /\ uploadFile = request.hasFile
    /\ fitFiles = <<>>
    /\ todo = <<>>
    /\ allData = <<>>
    /\ devices = <<>>
    /\ metrics = <<>>
    /\ thrown = ""
    /\ response = NoResponse
    /\ parked = NoInvocation
    /\ processed = NoEntries
    /\ fileMetadata = NoEntries
    /\ stamped = NoEntries
    /\ processedData = NoEntries
    /\ hashDirs = {}
    /\ reply = NoResponse

Spec == Init /\ [][Next]_vars

(***************************************************************************)
(* The server with two uploads in flight and its GET handlers.             *)
(***************************************************************************)
\* an export in the layout index.ts and part_000 look for
ExportA ==
    Upload(InFit(<<File(<<"h","e","a","r","t","_","r","a","t","e",".","j","s","o","n">>, Arr(<<Reading(T2, 2), Reading(T1, 1)>>)),
                   Dir(<<"A","l","l"," ","D","a","t","a">>,
                       <<File(<<"s","t","e","p","_","c","o","u","n","t",".","j","s","o","n">>,
                              Arr(<<Point([startTime |-> Str(T1), value |-> Num(5),
                                           device |-> Str(<<"P","i","x","e","l",","," ","7">>)])>>))>>)>>))
ExportB ==
    Upload(InFit(<<File(<<"h","e","a","r","t","_","r","a","t","e",".","j","s","o","n">>, Arr(<<Reading(T3, 9)>>))>>))

\* a file of the layout part_002 reads
Series(device, typed, time, n) ==
    Obj([device |-> Str(device),
         data |-> Arr(<<Obj([startTime |-> Str(time),
                             value |-> Arr(<<Obj([k \in {typed} |-> Num(n)])>>)])>>)])
ExportP ==
    Upload(InFit(<<Dir(<<"D","a","i","l","y"," ","a","c","t","i","v","i","t","y"," ","m","e","t","r","i","c","s">>,
                       <<File(<<"h","e","a","r","t","_","r","a","t","e",".","j","s","o","n">>, Series(<<"P","i","x","e","l">>, "fpVal", T1, 72)),
                         File(<<"r","e","a","d","m","e",".","t","x","t">>, Undefined),
                         File(<<"s","t","e","p","_","c","o","u","n","t",".","j","s","o","n">>, Series(<<"B","a","n","d">>, "intVal", T2, 9))>>)>>))
ExportQ ==
    Upload(InFit(<<Dir(<<"D","a","i","l","y"," ","a","c","t","i","v","i","t","y"," ","m","e","t","r","i","c","s">>,
                       <<File(<<"h","e","a","r","t","_","r","a","t","e",".","j","s","o","n">>, Series(<<"P","i","x","e","l">>, "fpVal", T3, 60)),
                         Malformed(<<"s","t","e","p","_","c","o","u","n","t",".","j","s","o","n">>)>>)>>))

ServerRequests ==
    { ExportA, ExportB, ExportP, ExportQ,
      [ExportA EXCEPT !.hasFile = FALSE],
      [ExportA EXCEPT !.originalname = <<"n","o","t","e","s",".","t","x","t">>],
      [ExportA EXCEPT !.zip = "damaged"],
      [ExportP EXCEPT !.zip = "unreadable"],
      Upload(<<Dir(<<"T","a","k","e","o","u","t">>, <<Dir(<<"P","h","o","t","o","s">>, <<File(<<"a",".","j","s","o","n">>, Reading(T1, 1))>>)>>)>>),
      Upload(InFit(<<Malformed(<<"a",".","j","s","o","n">>)>>)) }

\* the same upload under the name multer gives the second one
Second(req) == [req EXCEPT !.root.name = UploadName2]

ServerInit ==
    /\ impl \in {"index", "part000", "part002"}
    /\ request \in ServerRequests
    /\ pc = "start"
    /\ extractPath = FALSE
    /\ extractDir = FALSE
    /\ uploadFile = request.hasFile
    /\ fitFiles = <<>>
    /\ todo = <<>>
    /\ allData = <<>>
    /\ devices = <<>>
    /\ metrics = <<>>
    /\ thrown = ""
    /\ response = NoResponse
    /\ parked \in {Arrived(Second(req)) : req \in ServerRequests}
    /\ processed = NoEntries
    /\ fileMetadata = NoEntries
    /\ stamped = NoEntries
    /\ processedData = NoEntries
    /\ hashDirs = {}
    /\ reply = NoResponse

ServerNext ==
    \/ Next
    \/ P2NoFile \/ P2Unpack \/ P2Locate \/ P2ReadFile \/ P2Store \/ P2CleanUp \/ P2Catch
    \/ Switch
    \/ ReadData \/ Verify \/ Tamper

ServerSpec == ServerInit /\ [][ServerNext]_vars

(***************************************************************************)
(* Properties of the servers.                                              *)
(***************************************************************************)
Done == pc = "done"
Succeeded == pc = "done" /\ "data" \in response.keys
\* the file loop has ended and the buffer is not yet sorted
LoopEnded == \/ impl = "index" /\ pc = "finish"
             \/ impl = "part000" /\ pc = "dirs" /\ todo = <<>>
\* the candidate files the loop has been through
Visited == IF impl = "index" /\ pc = "files"
           THEN SubSeq(fitFiles, 1, Len(fitFiles) - Len(todo))
           ELSE fitFiles

\* some entry of the tree cannot be inspected, or some directory not listed
RECURSIVE HasWalkFault(_)
HasWalkFault(entries) ==
    \E i \in DOMAIN entries :
        \/ ~entries[i].statOk
        \/ entries[i].kind = "dir"
           /\ (~entries[i].readOk \/ HasWalkFault(entries[i].entries))

\* records whose timestamps denote instants appear in the order of those
\* instants
SortedByInstant(records) ==
    \A i, j \in DOMAIN records :
        (/\ i < j
         /\ ~DateOf(records[i].timestamp).nan
         /\ ~DateOf(records[j].timestamp).nan)
        => DateOf(records[i].timestamp).ms <= DateOf(records[j].timestamp).ms

\* C1: the records of every successful response are in non-decreasing order
\* of the instants of their timestamps, whatever the time fields held.
C1_RecordsSorted == Succeeded => SortedByInstant(response.data)

\* C2: every record in the buffer has a non-empty value string and a
\* non-empty timestamp string.
C2_RecordsComplete ==
    \A i \in DOMAIN allData :
        /\ allData[i].value # <<>>
        /\ allData[i].timestamp.t = "str"
        /\ allData[i].timestamp.s # <<>>

\* C3: once the archive is unpacked and every entry of it can be inspected,
\* the request ends with NoFitDataFound exactly when no candidate file was
\* located, with NoValidDataFound exactly when some were located and no
\* record survived, and with success otherwise.
C3_FailureKinds ==
    (Done /\ request.hasFile /\ extractPath /\ request.zip = "ok"
          /\ ~HasWalkFault(request.root.entries))
    => /\ (response.error = "NoFitDataFound") <=> (Len(fitFiles) = 0)
       /\ (response.error = "NoValidDataFound") <=> (Len(fitFiles) > 0 /\ Len(allData) = 0)
       /\ ("data" \in response.keys) <=> (Len(fitFiles) > 0 /\ Len(allData) > 0)

\* C4: a request ends with exactly one response, which is either a success
\* that carries a non-empty record sequence and no error, or an error that
\* carries no records; before it ends nothing has been sent.
C4_OneOutcome ==
    /\ ~Done => response = NoResponse
    /\ Done =>
        \/ /\ response.status = 200
           /\ "data" \in response.keys /\ "error" \notin response.keys
           /\ response.error = ""
           /\ Len(response.data) > 0
        \/ /\ response.status \in {400, 500}
           /\ "error" \in response.keys /\ "data" \notin response.keys
           /\ response.error # ""
           /\ response.data = <<>> /\ response.devices = <<>> /\ response.metrics = <<>>

\* a success that followed files which gave no record next to files which did
C4_Witness ==
    /\ Succeeded
    /\ Len(fitFiles) > 1
    /\ Len(response.data) > 1
    /\ \E i \in DOMAIN fitFiles : ~fitFiles[i].parses

EmptyAcc == Acc(<<>>, <<>>, <<>>)

\* the records a candidate file gives when it is the only one
EmittedBy(file) ==
    IF impl = "index" THEN processFile(file, EmptyAcc).allData
    ELSE processJsonFile(file, EmptyAcc).allData

\* the point has a time field the server recognizes
Timed(point) ==
    IF impl = "index"
    THEN ~IsNullish(point) /\ getTimestamp(point).v.t # "null"
    ELSE Truthy(point) /\ Truthy(timestampOf(point))

\* the file without those points of its sequence that have no such field
WithoutTimeless(file) ==
    IF file.parses /\ file.data.t = "arr"
    THEN [file EXCEPT !.data = Arr(SelectSeq(file.data.a, Timed))]
    ELSE file

RECURSIVE RecordsWithoutTimeless(_, _)
RecordsWithoutTimeless(files, i) ==
    IF i > Len(files) THEN <<>>
    ELSE EmittedBy(WithoutTimeless(files[i])) \o RecordsWithoutTimeless(files, i + 1)

\* C5: a point with no recognizable timestamp field gives no record and
\* changes nothing else: the buffer at the end of the file loop is what the
\* same files give with those points taken out of their sequences.
C5_TimelessPointsInert ==
    LoopEnded => allData = RecordsWithoutTimeless(fitFiles, 1)

\* the records of the files, each taken alone, a file that cannot be read
\* or parsed giving none
RECURSIVE RecordsFileByFile(_, _)
RecordsFileByFile(files, i) ==
    IF i > Len(files) THEN <<>>
    ELSE (IF files[i].readOk /\ files[i].parses THEN EmittedBy(files[i]) ELSE <<>>)
         \o RecordsFileByFile(files, i + 1)

\* C6: a candidate file that cannot be read or parsed contributes no record
\* and does not end the run: throughout the file loop the buffer holds, for
\* every file gone through, the records that file gives on its own, and no
\* error is on its way to the catch but the aggregate ones (or, in part_000,
\* that of an entry the walk could not inspect).
C6_BadFileSkipped ==
    /\ (pc \in {"files", "finish", "dirs"}) => allData = RecordsFileByFile(Visited, 1)
    /\ (pc = "finish") => (todo = <<>> /\ Visited = fitFiles)
    /\ thrown \in {"", "NotZip", "CorruptArchive", "NoFitDataFound", "NoValidDataFound"}
       \/ (thrown = "IOError" /\ impl = "part000" /\ HasWalkFault(request.root.entries))

\* a file that does not parse between two files that gave their records
C6_Witness ==
    /\ LoopEnded
    /\ Len(fitFiles) = 3
    /\ fitFiles[1].readOk /\ fitFiles[1].parses
    /\ ~fitFiles[2].parses
    /\ fitFiles[3].readOk /\ fitFiles[3].parses
    /\ Len(allData) = 4

\* both the value and the timestamp of the point resolve
Resolves(point) ==
    IF impl = "index"
    THEN /\ ~IsNullish(point)
         /\ extractValue(point).t # "null"
         /\ Truthy(getTimestamp(point).v)
    ELSE Truthy(point) /\ valueOf(point).t # "null" /\ Truthy(timestampOf(point))

TimestampOf(point) ==
    IF impl = "index" THEN getTimestamp(point).v ELSE timestampOf(point)
ValueOf(point) ==
    IF impl = "index" THEN extractValue(point) ELSE valueOf(point)

\* C7: device resolution yields a string and never raises, so every point
\* whose value and timestamp resolve (in a file none of whose points is
\* null) has its record in the buffer, and every device is a string.
C7_DeviceTotal ==
    LoopEnded =>
        /\ \A i \in DOMAIN devices : devices[i].t = "str"
        /\ \A i \in DOMAIN fitFiles :
             (/\ fitFiles[i].readOk /\ fitFiles[i].parses
              /\ \A k \in DOMAIN PointsOf(fitFiles[i].data) :
                     ~IsNullish(PointsOf(fitFiles[i].data)[k]))
             => \A k \in DOMAIN PointsOf(fitFiles[i].data) :
                    Resolves(PointsOf(fitFiles[i].data)[k])
                    => \E r \in DOMAIN allData :
                         /\ allData[r].timestamp = TimestampOf(PointsOf(fitFiles[i].data)[k])
                         /\ allData[r].value = ToStr(ValueOf(PointsOf(fitFiles[i].data)[k]))

\* one candidate file of one point, which gave one record
OnePointOneRecord ==
    /\ LoopEnded
    /\ Len(fitFiles) = 1
    /\ fitFiles[1].readOk /\ fitFiles[1].parses
    /\ Len(PointsOf(fitFiles[1].data)) = 1
    /\ Len(allData) = 1
ThePoint == PointsOf(fitFiles[1].data)[1]

SubFields == {"name", "manufacturer", "model", "type"}

\* C8 as stated: the device of the record is not the sentinel whenever the
\* point carries a non-empty string device, a device object with one of the
\* sub-fields, or an originDataSourceId.
C8_SentinelOnlyWithoutFields ==
    (/\ OnePointOneRecord
     /\ \/ Get(ThePoint, "device").t = "str" /\ Get(ThePoint, "device").s # <<>>
        \/ /\ Get(ThePoint, "device").t = "obj"
           /\ \E k \in SubFields : k \in DOMAIN Get(ThePoint, "device").o
        \/ ThePoint.t = "obj" /\ "originDataSourceId" \in DOMAIN ThePoint.o)
    => allData[1].device # UnknownDevice

\* C8 as amended: the device of the record is not the sentinel whenever the
\* point carries a non-empty string device, a device object with a truthy
\* sub-field, or, with no truthy device field, a truthy originDataSourceId,
\* and none of these is the sentinel's own text.
C8_SentinelOnlyWithoutResolvingField ==
    (/\ OnePointOneRecord
     /\ \/ /\ Get(ThePoint, "device").t = "str"
           /\ Get(ThePoint, "device").s # <<>>
           /\ Get(ThePoint, "device") # UnknownDevice
        \/ /\ Get(ThePoint, "device").t = "obj"
           /\ \E k \in SubFields : Truthy(Get(Get(ThePoint, "device"), k))
           /\ \A k \in SubFields : Get(Get(ThePoint, "device"), k) # UnknownDevice
        \/ /\ ~Truthy(Get(ThePoint, "device"))
           /\ Truthy(Get(ThePoint, "originDataSourceId"))
           /\ Get(ThePoint, "originDataSourceId") # UnknownDevice)
    => allData[1].device # UnknownDevice

\* a record whose device came from a sub-field later in the chain than an
\* empty name
C8_Witness ==
    /\ OnePointOneRecord
    /\ Get(ThePoint, "device").t = "obj"
    /\ Get(Get(ThePoint, "device"), "name") = Str(<<>>)
    /\ allData[1].device = Get(Get(ThePoint, "device"), "model")

\* the files for whose names the resolver has been called
Resolved(files) ==
    {i \in DOMAIN files :
        files[i].readOk /\ (impl = "part000" => files[i].parses)}

\* C9: the resolver returns a string for every file name it is given, and
\* one label per name: every metric in the Set and in a record is a string,
\* every resolved file has added a label, and there are no more labels
\* than distinct names.
C9_ResolverTotal ==
    /\ \A i \in DOMAIN metrics : metrics[i].t = "str"
    /\ \A i \in DOMAIN allData :
         allData[i].metric.t = "str" /\ allData[i].metric \in Range(metrics)
    /\ (pc \in {"files", "finish", "dirs"}) =>
         /\ Resolved(Visited) # {} => Len(metrics) >= 1
         /\ Len(metrics) <= Cardinality({Visited[i].name : i \in Resolved(Visited)})

\* a file name that no pattern fits once its numbering and extension are
\* gone, resolved to what is left of it, next to a second file
C9_Witness ==
    /\ LoopEnded
    /\ impl = "index"
    /\ Len(fitFiles) = 2
    /\ Resolved(fitFiles) = {1, 2}
    /\ FirstCapture(StripNumberedJson(fitFiles[2].name), parsePatterns, 1) = <<>>
    /\ allData[2].metric = Str(StripNumberedJson(fitFiles[2].name))
    /\ Len(metrics) = 2

\* b is the name a with " (N)" put before its extension
NumberedCopy(a, b) ==
    /\ endsWith(a, <<".","j","s","o","n">>)
    /\ \E n \in {<<" ","(","2",")">>, <<" ","(","1","3",")">>} :
         b = SubSeq(a, 1, Len(a) - 5) \o n \o <<".","j","s","o","n">>

\* C10: "F.json" and "F (N).json" resolve to the same label: two such
\* candidate files put one label in the Set and in their records.
C10_NumberedCopySameLabel ==
    (/\ LoopEnded
     /\ Len(fitFiles) = 2
     /\ Resolved(fitFiles) = {1, 2}
     /\ NumberedCopy(fitFiles[1].name, fitFiles[2].name))
    => /\ Len(metrics) = 1
       /\ \A i \in DOMAIN allData : allData[i].metric = metrics[1]

\* the reply in hand is that of /verify for a stored artifact
Verified == reply.status = 200 /\ "verified" \in reply.keys

\* C11: verify answers true exactly when the bytes of the artifact are
\* those written when it was produced, and every artifact produced has its
\* metadata entry: an unaltered artifact verifies true, one with a
\* character altered verifies false.
C11_VerifyIffUnaltered ==
    /\ DOMAIN fileMetadata = DOMAIN stamped
    /\ DOMAIN processed = DOMAIN stamped
    /\ Verified =>
         (reply.verified <=> processed[reply.fileId] = stamped[reply.fileId])

\* /verify has answered false for one of two stored artifacts, a character
\* of which was altered
C11_Witness ==
    /\ Verified
    /\ ~reply.verified
    /\ Cardinality(DOMAIN processed) = 2
    /\ processed[reply.fileId] # stamped[reply.fileId]

\* both invocations have ended and were given the same upload
BothDone == pc = "done" /\ parked # NoInvocation /\ parked.pc = "done"
SameUpload ==
    /\ parked # NoInvocation
    /\ [request EXCEPT !.root.name = <<>>] = [parked.request EXCEPT !.root.name = <<>>]

\* C12: two invocations on the same archive content end with the same
\* response (records, devices, metrics, or the same error) and, in
\* part_000, with the same digest of the artifact.
C12_SameContentSameResult ==
    (impl \in {"index", "part000"} /\ BothDone /\ SameUpload) =>
        /\ response = parked.response
        /\ (impl = "part000" /\ "data" \in response.keys) =>
              /\ stamped[FileId(request)] = stamped[FileId(parked.request)]
              /\ fileMetadata[FileId(request)].hash
                     = fileMetadata[FileId(parked.request)].hash

\* two uploads of the same export, both stored by part_000
C12_Witness ==
    /\ impl = "part000" /\ BothDone /\ SameUpload
    /\ "data" \in response.keys
    /\ Len(response.data) > 2
    /\ Cardinality(DOMAIN fileMetadata) = 2

\* a directory fails when it cannot be read or when one of its entries
\* cannot be inspected
FailedDir(dir) ==
    \/ ~dir.readOk
    \/ \E i \in 1..Len(dir.entries) : ~dir.entries[i].statOk

\* the entries without the subtrees of the directories that fail
RECURSIVE Pruned(_, _)
Pruned(entries, i) ==
    IF i > Len(entries) THEN <<>>
    ELSE (IF entries[i].kind # "dir" THEN <<entries[i]>>
          ELSE IF FailedDir(entries[i]) THEN <<>>
          ELSE <<[entries[i] EXCEPT !.entries = Pruned(entries[i].entries, 1)]>>)
         \o Pruned(entries, i + 1)

\* the uploaded tree without the subtrees of the directories that fail
Outside(root) ==
    [root EXCEPT !.entries = IF FailedDir(root) THEN <<>> ELSE Pruned(root.entries, 1)]

\* part_000: the .json files processDirectory reaches under the directories
\* given, when nothing fails
RECURSIVE jsonFilesIn(_, _)
jsonFilesIn(entries, i) ==
    IF i > Len(entries) THEN <<>>
    ELSE (IF entries[i].kind = "dir" THEN jsonFilesIn(entries[i].entries, 1)
          ELSE IF endsWith(toLowerCase(entries[i].name), <<".","j","s","o","n">>)
               THEN <<entries[i]>> ELSE <<>>)
         \o jsonFilesIn(entries, i + 1)

\* the candidate files the walk of the server locates in a tree
LocatedIn(root) ==
    IF impl = "index" THEN findFitFiles(root)
    ELSE jsonFilesIn(findFitDataDirectory(root).dirs, 1)

\* the handler has ended and had unpacked the archive
WalkOver == Done /\ request.hasFile /\ request.zip = "ok" /\ extractPath

\* C13: a directory that cannot be read, or one of whose entries cannot be
\* inspected, costs the walk the subtree of that directory only: the walk
\* ends normally and has located every candidate file outside the failed
\* subtrees, those of the directories listed after the failing one included.
C13_FailedSubtreeOnly ==
    (impl \in {"index", "part000"} /\ WalkOver) =>
        /\ thrown # "IOError"
        /\ \A i \in 1..Len(LocatedIn(Outside(request.root))) :
               \E j \in 1..Len(fitFiles) : fitFiles[j] = LocatedIn(Outside(request.root))[i]

\* every invocation on the server has ended
AllDone == Done /\ (parked = NoInvocation \/ parked.pc = "done")

\* C14: when the archive cannot be unpacked the upload answers with an
\* error, and once the handlers have ended nothing of that upload is left:
\* no extraction directory, no uploaded temporary file, no stored result
\* and no metadata entry.
C14_FailedUnpackLeavesNothing ==
    (AllDone /\ thrown = "CorruptArchive") =>
        /\ response.status = 500
        /\ ~extractDir
        /\ ~uploadFile
        /\ FileHash(request) \notin hashDirs
        /\ FileHash(request) \notin DOMAIN processedData
        /\ FileId(request) \notin DOMAIN processed
        /\ FileId(request) \notin DOMAIN fileMetadata

\* index.ts lines 239-274 over the files in turn, by one invocation alone
RECURSIVE IndexFiles(_, _, _)
IndexFiles(files, i, acc) ==
    IF i > Len(files) THEN acc
    ELSE IndexFiles(files, i + 1, processFile(files[i], acc))

\* part_000 lines 104-200 over the entries in turn, by one invocation alone
RECURSIVE PartEntries(_, _)
PartEntries(rest, acc) ==
    IF rest = <<>> THEN [threw |-> FALSE, acc |-> acc]
    ELSE IF ~Head(rest).statOk \/ (Head(rest).kind = "dir" /\ ~Head(rest).readOk)
         THEN [threw |-> TRUE, acc |-> acc]
    ELSE IF Head(rest).kind = "dir"
         THEN PartEntries(Head(rest).entries \o Tail(rest), acc)
    ELSE IF endsWith(toLowerCase(Head(rest).name), <<".","j","s","o","n">>)
         THEN PartEntries(Tail(rest), processJsonFile(Head(rest), acc))
    ELSE PartEntries(Tail(rest), acc)

\* what the upload handler of index.ts answers to a request it serves alone
IndexAlone(req) ==
    IF ~req.hasFile THEN ErrorResponse(400, "NoFile")
    ELSE IF ~endsWith(toLowerCase(req.originalname), <<".","z","i","p">>)
         THEN ErrorResponse(500, "NotZip")
    ELSE IF req.zip # "ok" THEN ErrorResponse(500, "CorruptArchive")
    ELSE IF Len(findFitFiles(req.root)) = 0 THEN ErrorResponse(500, "NoFitDataFound")
    ELSE LET acc == IndexFiles(findFitFiles(req.root), 1, Acc(<<>>, <<>>, <<>>))
         IN  IF Len(acc.allData) = 0 THEN ErrorResponse(500, "NoValidDataFound")
             ELSE SuccessResponse(sortByTimestamp(acc.allData), acc.devices, acc.metrics)

\* what the upload handler of part_000 answers to a request it serves alone
PartAlone(req) ==
    IF ~req.hasFile THEN ErrorResponse(400, "NoFile")
    ELSE IF ~endsWith(req.originalname, <<".","z","i","p">>) THEN ErrorResponse(400, "NotZip")
    ELSE IF req.zip # "ok" THEN ErrorResponse(500, "CorruptArchive")
    ELSE IF findFitDataDirectory(req.root).threw THEN ErrorResponse(500, "IOError")
    ELSE IF Len(findFitDataDirectory(req.root).dirs) = 0
         THEN ErrorResponse(500, "NoFitDataFound")
    ELSE LET end == PartEntries(findFitDataDirectory(req.root).dirs, Acc(<<>>, <<>>, <<>>))
         IN  IF end.threw THEN ErrorResponse(500, "IOError")
             ELSE IF Len(end.acc.allData) = 0 THEN ErrorResponse(500, "NoValidDataFound")
             ELSE ProcessedResponse(sortByTimestamp(end.acc.allData),
                                    end.acc.devices, end.acc.metrics)

Alone(req) == IF impl = "index" THEN IndexAlone(req) ELSE PartAlone(req)

\* C15: the invocations share no mutable state: however the steps of two
\* uploads are interleaved, each one answers with the records, the metrics
\* and the devices it answers with when it is served alone.
C15_AnswersAsAlone ==
    (impl \in {"index", "part000"} /\ Done) =>
        /\ response = Alone(request)
        /\ (parked # NoInvocation /\ parked.pc = "done") =>
               parked.response = Alone(parked.request)

C15_Witness ==
    /\ impl \in {"index", "part000"} /\ BothDone
    /\ "data" \in response.keys /\ "data" \in parked.response.keys
    /\ response.data # parked.response.data
    /\ response.devices # parked.response.devices
    /\ response = Alone(request)

\* the file loop has ended on one file that held one point
OnePoint ==
    /\ LoopEnded
    /\ Len(fitFiles) = 1
    /\ fitFiles[1].readOk /\ fitFiles[1].parses
    /\ Len(PointsOf(fitFiles[1].data)) = 1

\* the value is a string that parses as an instant
Parses(v) == v.t = "str" /\ ~DateParse(v.s).nan

\* the positions in timeFields of the fields of the point that parse
ParsingFields(point) ==
    {i \in DOMAIN timeFields : Parses(Get(point, timeFields[i]))}

FirstParsing(point) ==
    Get(point, timeFields[CHOOSE i \in ParsingFields(point) :
                              \A k \in ParsingFields(point) : i <= k])

\* C16: the timestamp of a point is the canonical UTC instant of the first
\* of startTime, endTime, timestamp, modifiedTime, createTime,
\* lastModifiedTime, originDataSourceId, date that is present and parses; a
\* field that does not parse is passed over; there is no timestamp exactly
\* when no field parses.
C16_FirstParsingField ==
    (OnePoint /\ ThePoint.t = "obj") =>
        IF ParsingFields(ThePoint) = {}
        THEN ~Truthy(TimestampOf(ThePoint)) /\ allData = <<>>
        ELSE /\ TimestampOf(ThePoint) = Str(toISOString(DateParse(FirstParsing(ThePoint).s).ms))
             /\ \A i \in DOMAIN allData : allData[i].timestamp = TimestampOf(ThePoint)

\* the first element of the value sequence of the point
FirstValue == First(Get(ThePoint, "value"))

\* the point holds a value sequence whose first element is an object
TypedPoint ==
    /\ OnePoint /\ ThePoint.t = "obj"
    /\ Get(ThePoint, "value").t = "arr"
    /\ FirstValue.t = "obj"

\* C17: the value of a point whose value sequence starts with an object is
\* the intVal of that object if it has one, else its fpVal if it has one,
\* else its stringVal; an intVal of 0 is taken before fpVal and stringVal.
C17_IntBeforeFloatBeforeString ==
    TypedPoint =>
        /\ ValueOf(ThePoint) =
             (IF ~IsNullish(Get(FirstValue, "intVal")) THEN Get(FirstValue, "intVal")
              ELSE IF ~IsNullish(Get(FirstValue, "fpVal")) THEN Get(FirstValue, "fpVal")
              ELSE IF ~IsNullish(Get(FirstValue, "stringVal")) THEN Get(FirstValue, "stringVal")
              ELSE ValueOf(ThePoint))
        /\ (\A k \in {"intVal", "fpVal", "stringVal"} : IsNullish(Get(FirstValue, k)))
               => IsNullish(ValueOf(ThePoint))
        /\ \A i \in DOMAIN allData : allData[i].value = ToStr(ValueOf(ThePoint))

C17_Witness ==
    /\ TypedPoint
    /\ Get(FirstValue, "intVal") = Num(0)
    /\ Get(FirstValue, "fpVal") = Num(7)
    /\ Len(allData) = 1
    /\ allData[1].value = <<"0">>

\* what each rule of the chain yields for a point, undefined for nothing:
\* (a) a value sequence, (b) another value, (c) the domain-specific fields,
\* (d) the nested wrapper
RuleSequence(point) ==
    IF Get(point, "value").t # "arr" THEN Undefined
    ELSE IF First(Get(point, "value")).t = "obj"
         THEN Coalesce(Get(First(Get(point, "value")), "intVal"),
                       Coalesce(Get(First(Get(point, "value")), "fpVal"),
                                Coalesce(Get(First(Get(point, "value")), "stringVal"),
                                         Undefined)))
    ELSE Coalesce(First(Get(point, "value")), Undefined)
RuleValue(point) ==
    IF Get(point, "value").t = "arr" THEN Undefined
    ELSE Coalesce(Get(point, "value"), Undefined)
RuleFields(point) == Coalesce(FirstDefined(point, valueFields, 1), Undefined)
RuleWrapper(point) ==
    IF IsNullish(Get(point, "fitValue")) THEN Undefined
    ELSE Coalesce(Get(Get(point, "fitValue"), "value"), Get(point, "fitValue"))

\* the first of the rules that yields a value
FirstSuccess(point) ==
    IF RuleSequence(point).t # "undefined" THEN RuleSequence(point)
    ELSE IF RuleValue(point).t # "undefined" THEN RuleValue(point)
    ELSE IF RuleFields(point).t # "undefined" THEN RuleFields(point)
    ELSE RuleWrapper(point)

\* C18: extractValue is a first-success-wins chain over the rules (a) to
\* (d): a rule that yields nothing lets the next one be tried, and the
\* result is none exactly when no rule yields a value (values are compared
\* as the text the record carries).
C18_FirstSuccessWins ==
    (impl = "index" /\ OnePoint /\ ThePoint.t = "obj") =>
        IF FirstSuccess(ThePoint).t = "undefined"
        THEN IsNullish(extractValue(ThePoint))
        ELSE /\ ~IsNullish(extractValue(ThePoint))
             /\ ToStr(extractValue(ThePoint)) = ToStr(FirstSuccess(ThePoint))

\* the positions in valueFields of the fields the point has
PresentFields(point) ==
    {i \in DOMAIN valueFields : Get(point, valueFields[i]).t # "undefined"}

FirstPresent(point) ==
    Get(point, valueFields[CHOOSE i \in PresentFields(point) :
                               \A k \in PresentFields(point) : i <= k])

\* the point with its value field alone
ValueAlone(point) == Obj([k \in {"value"} |-> Get(point, "value")])

\* C19: a value field goes before every domain-specific field; without one
\* the value is that of the first present field in the order activity,
\* steps, distance, calories, heart_rate, bpm, speed, power, weight, height,
\* sleepSegmentType; the nested wrapper is probed only when none of them is
\* present, its inner value before the wrapper itself.
C19_ValueThenFieldsThenWrapper ==
    (OnePoint /\ ThePoint.t = "obj") =>
        IF Get(ThePoint, "value").t # "undefined"
        THEN ValueOf(ThePoint) = ValueOf(ValueAlone(ThePoint))
        ELSE IF PresentFields(ThePoint) # {}
        THEN ValueOf(ThePoint) = FirstPresent(ThePoint)
        ELSE IF RuleWrapper(ThePoint).t # "undefined"
        THEN ValueOf(ThePoint) = RuleWrapper(ThePoint)
        ELSE IsNullish(ValueOf(ThePoint))

DeviceOf(point) ==
    IF impl = "index" THEN getDeviceInfo(point).v ELSE deviceInfoOf(point)

\* the first of name, manufacturer, model, type that the device object
\* holds with a value, else the sentinel
FirstSubField(device) ==
    IF Truthy(Get(device, "name")) THEN Get(device, "name")
    ELSE IF Truthy(Get(device, "manufacturer")) THEN Get(device, "manufacturer")
    ELSE IF Truthy(Get(device, "model")) THEN Get(device, "model")
    ELSE IF Truthy(Get(device, "type")) THEN Get(device, "type")
    ELSE UnknownDevice

\* the vendor token of an id raw:<namespace>.<vendor>:..., lower-cased and
\* with spaces for underscores; the id itself when it has no such token
VendorOrId(id) ==
    IF RawSourceMatch(id.s) # <<>>
    THEN Str(toLowerCase(replaceChar(RawSourceMatch(id.s), "_", " ")))
    ELSE id

\* the device and the id of the point are of the kinds the chain names
ChainPoint ==
    /\ OnePoint /\ ThePoint.t = "obj"
    /\ Get(ThePoint, "device").t \in {"str", "obj", "undefined"}
    /\ Get(ThePoint, "originDataSourceId").t \in {"str", "undefined"}

\* C20: device resolution is a fixed chain: a string device as it is; of an
\* object device the first of name, manufacturer, model, type, else the
\* sentinel; without a device the vendor token of originDataSourceId when
\* the id has one and the id itself when not; with neither the sentinel.
\* (A field that is empty counts as not there.)
C20_DeviceChain ==
    ChainPoint =>
        DeviceOf(ThePoint) =
            (IF Get(ThePoint, "device").t = "str" /\ Truthy(Get(ThePoint, "device"))
             THEN Get(ThePoint, "device")
             ELSE IF Get(ThePoint, "device").t = "obj"
             THEN FirstSubField(Get(ThePoint, "device"))
             ELSE IF Truthy(Get(ThePoint, "originDataSourceId"))
             THEN VendorOrId(Get(ThePoint, "originDataSourceId"))
             ELSE UnknownDevice)

\* the label the server gives a file name
LabelOf(filename) ==
    IF impl = "index" THEN parseMetricName(filename) ELSE normalizeMetricName(filename)

\* the patterns in their order: the vendor-namespaced derived identifier,
\* the vendor-namespaced identifier, the category-namespaced identifier,
\* the catch-all before the extension
OrderedPatterns == << Pattern(<<"d","e","r","i","v","e","d","_","c","o","m",".","g","o","o","g","l","e",".">>, "_"),
                      Pattern(<<"c","o","m",".","g","o","o","g","l","e",".">>, "."),
                      Pattern(<<"f","i","t","n","e","s","s",".">>, "."),
                      CatchAll >>

\* the positions of the patterns that match the name
Matching(filename) ==
    {i \in DOMAIN OrderedPatterns : CaptureOf(filename, OrderedPatterns[i]) # <<>>}

FirstMatching(filename) ==
    OrderedPatterns[CHOOSE i \in Matching(filename) : \A k \in Matching(filename) : i <= k]

\* the name carries no duplicate numbering
Unnumbered(filename) == \A p \in 1..Len(filename) : NumberingEnd(filename, p) = 0

\* C21: the label of a file is the post-processed capture of the first of
\* the patterns, taken from the specific to the general, that matches its
\* name; a later pattern never decides the label when an earlier one
\* matches.
C21_FirstMatchingPattern ==
    LoopEnded =>
        \A i \in Resolved(fitFiles) :
            (Unnumbered(fitFiles[i].name) /\ Matching(fitFiles[i].name) # {}) =>
                /\ LabelOf(fitFiles[i].name) =
                       Str(PostProcess(CaptureOf(fitFiles[i].name,
                                                 FirstMatching(fitFiles[i].name))))
                /\ LabelOf(fitFiles[i].name) \in Range(metrics)

\* the text is lower-cased and whitespace-normalized
Normalized(label) ==
    /\ \A i \in DOMAIN label : ~IsUpper(label[i]) /\ label[i] \notin {"_", "."}
    /\ label # <<>> => ~IsSpace(label[1]) /\ ~IsSpace(label[Len(label)])
    /\ \A i \in 1..(Len(label) - 1) : ~(IsSpace(label[i]) /\ IsSpace(label[i + 1]))

\* C22: every label the resolver returns for a .json file name, and so the
\* metric of every record, is lower-cased and whitespace-normalized: no
\* upper-case letter, no underscore, no dot, no space at either end, single
\* spaces between the words.
C22_LabelsNormalized ==
    (impl = "index") =>
        /\ \A i \in DOMAIN metrics : metrics[i].t = "str" /\ Normalized(metrics[i].s)
        /\ \A i \in DOMAIN allData :
               allData[i].metric.t = "str" /\ Normalized(allData[i].metric.s)

\* the directory name is that of a data category, whatever its case
IsCategoryName(name) == toLowerCase(name) = <<"f","i","t">> \/ IsFitnessName(name)

\* the .json files anywhere beneath the directories given
RECURSIVE JsonBeneath(_, _)
JsonBeneath(entries, i) ==
    IF i > Len(entries) THEN <<>>
    ELSE (IF entries[i].kind = "dir" THEN JsonBeneath(entries[i].entries, 1)
          ELSE IF endsWith(entries[i].name, <<".","j","s","o","n">>) THEN <<entries[i]>>
          ELSE <<>>)
         \o JsonBeneath(entries, i + 1)

\* the .json files beneath a category directory of the tree
RECURSIVE BeneathCategory(_, _)
BeneathCategory(entries, i) ==
    IF i > Len(entries) THEN <<>>
    ELSE (IF entries[i].kind # "dir" THEN <<>>
          ELSE IF IsCategoryName(entries[i].name)
               THEN JsonBeneath(entries[i].entries, 1)
               ELSE BeneathCategory(entries[i].entries, 1))
         \o BeneathCategory(entries, i + 1)

\* C23: the walk takes the markers in any case and, inside a directory that
\* matched one, goes down every subdirectory whatever its name: when nothing
\* fails, every .json file beneath a category directory is a candidate file.
C23_NothingBeneathCategoryMissed ==
    (impl \in {"index", "part000"} /\ WalkOver /\ ~HasWalkFault(request.root.entries)) =>
        \A i \in DOMAIN BeneathCategory(request.root.entries, 1) :
            \E j \in DOMAIN fitFiles :
                fitFiles[j] = BeneathCategory(request.root.entries, 1)[i]

\* the files in the directories the walk enters, each with the names of the
\* directories above it: all the directories beneath the entries when
\* `everywhere`, the marker directories only when not
RECURSIVE FilesUnder(_, _, _, _)
FilesUnder(entries, i, segments, everywhere) ==
    IF i > Len(entries) THEN <<>>
    ELSE (IF entries[i].kind = "file"
          THEN <<[node |-> entries[i], segments |-> segments]>>
          ELSE IF everywhere \/ IsMarkerDirectory(entries[i].name)
               THEN FilesUnder(entries[i].entries, 1,
                               Append(segments, entries[i].name), everywhere)
               ELSE <<>>)
         \o FilesUnder(entries, i + 1, segments, everywhere)

\* the files the walk of the server reaches: index.ts tests every file of
\* the directories traverse enters, part_000 every file beneath the
\* directories findFitDataDirectory has found
Reached(root) ==
    IF impl = "index" THEN FilesUnder(root.entries, 1, <<>>, FALSE)
    ELSE FilesUnder(findFitDataDirectory(root).dirs, 1, <<>>, TRUE)

\* a .json extension in any case, and a category segment in the path or a
\* vendor-derived file name
IsCandidate(file) ==
    /\ endsWith(toLowerCase(file.node.name), <<".","j","s","o","n">>)
    /\ \/ \E k \in DOMAIN file.segments : IsCategoryName(file.segments[k])
       \/ startsWith(file.node.name, <<"d","e","r","i","v","e","d","_">>)
       \/ includes(file.node.name, <<"c","o","m",".","g","o","o","g","l","e",".">>)

\* C24: a file the walk reaches is a candidate exactly when its extension
\* is .json in any case and its path holds a category segment or its name
\* starts with derived_ or holds a reverse-DNS vendor token; a file with
\* another extension is never a candidate.
C24_CandidateIffJsonInCategory ==
    (impl \in {"index", "part000"} /\ WalkOver /\ ~HasWalkFault(request.root.entries)) =>
        {fitFiles[j] : j \in DOMAIN fitFiles}
            = {Reached(request.root)[i].node :
                   i \in {k \in DOMAIN Reached(request.root) :
                              IsCandidate(Reached(request.root)[k])}}

\* the records in the order of their discovery: the files in the order of
\* the walk, the points in the order of the file
Discovered == IndexFiles(fitFiles, 1, EmptyAcc).allData

\* the records of the sequence whose timestamp is the instant ms
OfInstant(records, ms) ==
    LET At(record) == DateOf(record.timestamp) = Time(ms)
    IN  SelectSeq(records, At)

\* C25: the final sort is stable: records of one instant are in the
\* response in the order of their discovery.
C25_SortStable ==
    (impl = "index" /\ Succeeded) =>
        \A i \in DOMAIN response.data :
            OfInstant(response.data, DateOf(response.data[i].timestamp).ms)
                = OfInstant(Discovered, DateOf(response.data[i].timestamp).ms)

C25_Witness ==
    /\ impl = "index" /\ Succeeded
    /\ response.data # Discovered
    /\ \E i \in 1..(Len(response.data) - 1) :
           /\ DateOf(response.data[i].timestamp) = DateOf(response.data[i + 1].timestamp)
           /\ response.data[i] # response.data[i + 1]

\* C26: a label enters the metric Set or the device Set only with a record:
\* every metric of a successful response is the metric of one of its
\* records and every device is the device of one of its records.
C26_LabelsOnlyWithRecords ==
    (impl \in {"index", "part000"} /\ Succeeded) =>
        /\ \A i \in DOMAIN response.metrics :
               \E k \in DOMAIN response.data : response.data[k].metric = response.metrics[i]
        /\ \A i \in DOMAIN response.devices :
               \E k \in DOMAIN response.data : response.data[k].device = response.devices[i]

\* the candidate files in every order
Orders(files) ==
    { [i \in DOMAIN files |-> files[p[i]]] : p \in Permutations(DOMAIN files) }

\* the instants of the records a candidate file gives
InstantsOf(file) ==
    {DateOf(processFile(file, EmptyAcc).allData[k].timestamp) :
        k \in DOMAIN processFile(file, EmptyAcc).allData}

\* no instant is in the records of two of the files
NoSharedInstant(files) ==
    \A i, j \in DOMAIN files :
        (i # j) => InstantsOf(files[i]) \cap InstantsOf(files[j]) = {}

\* C27 as stated: the records returned do not depend on the order in which
\* the candidate files are processed: in every order of the files the
\* handler returns the same sequence, records of one instant in several
\* files included.
C27_FileOrderImmaterial ==
    (impl = "index" /\ Succeeded) =>
        \A files \in Orders(fitFiles) :
            sortByTimestamp(IndexFiles(files, 1, EmptyAcc).allData) = response.data

\* C27 as amended: in every order of the files the handler returns the
\* same sequence, provided that no instant is in the records of two files.
C27_FileOrderImmaterialWithoutTies ==
    (impl = "index" /\ Succeeded /\ NoSharedInstant(fitFiles)) =>
        \A files \in Orders(fitFiles) :
            sortByTimestamp(IndexFiles(files, 1, EmptyAcc).allData) = response.data

C27_Witness ==
    /\ impl = "index" /\ Succeeded /\ NoSharedInstant(fitFiles)
    /\ Cardinality({k \in DOMAIN fitFiles : InstantsOf(fitFiles[k]) # {}}) >= 2
    /\ response.data # Discovered
    /\ \E files \in Orders(fitFiles) :
           IndexFiles(files, 1, EmptyAcc).allData # Discovered

\* C28: in a successful response the metric of every record is in the
\* metric Set and the device of every record is in the device Set.
C28_RecordLabelsInSets ==
    (impl \in {"index", "part000"} /\ Succeeded) =>
        \A k \in DOMAIN response.data :
            /\ \E i \in DOMAIN response.metrics : response.metrics[i] = response.data[k].metric
            /\ \E i \in DOMAIN response.devices : response.devices[i] = response.data[k].device

C28_Witness ==
    /\ impl \in {"index", "part000"} /\ Succeeded
    /\ Len(response.data) >= 2
    /\ Len(response.metrics) >= 2
    /\ \E j, k \in DOMAIN response.data : response.data[j].metric # response.data[k].metric

\* the directory the handler unpacks the archive of a request to:
\* extracted/<req.file.filename> in index.ts, temp/<fileId> in part_000,
\* extracted/<fileHash> in part_002
ExtractionDirectory(req) ==
    IF impl = "part002" THEN [extracted |-> FileHash(req)]
    ELSE [extracted |-> FileId(req)]

\* the invocation has unpacked its archive and not yet removed the directory
InFlight(at) ==
    CASE impl = "index" -> at \in {"walk", "files"}
      [] impl = "part000" -> at \in {"find", "dirs", "cleanup"}
      [] OTHER -> at \in {"locate", "read", "cleanup"}

\* C29: no two requests in flight use one extraction directory, so that the
\* directory of a request is there for as long as the request reads it, and
\* of two uploads of the same bytes served together both succeed when one
\* does.
C29_OwnExtractionDirectory ==
    /\ (parked # NoInvocation /\ InFlight(pc) /\ InFlight(parked.pc)) =>
           ExtractionDirectory(request) # ExtractionDirectory(parked.request)
    /\ (impl = "part002" /\ pc \in {"locate", "read"}) => FileHash(request) \in hashDirs
    /\ (BothDone /\ SameUpload /\ response.status = 200) => parked.response.status = 200

====
